---- MODULE Spec2Model ----
(***************************************************************************)
(* SmartCutElf: highlight detection and segment extraction.                *)
(*                                                                         *)
(* Time is counted in milliseconds (Tick), so that the factors 0.5, 0.6,   *)
(* 0.8, 0.9 and 1.2 of the source are exact on whole-second inputs; a      *)
(* comparison with a fractional bound is cross-multiplied.  A sub-score is *)
(* a number of 1/ScoreDen, a weight a number of 1/WeightDen.               *)
(***************************************************************************)
EXTENDS Integers, Sequences, FiniteSets, TLC

VARIABLES
    an_pc,      \* analyze_video: "ready" | "done" | "raised"
    an_in,      \* analyze_video: the probed duration, the window, the weights
    an_out,     \* analyze_video: the returned list
    an_outcome, \* analyze_video: [audio, video], what each analyzer came to per window
    sel_pc,     \* select_highlights: "ready" | "selected" | "reselected"
    sel_in,     \* select_highlights: segments, target_duration, min_segment_duration
    sel_out,    \* select_highlights: the returned list
    sel_again,  \* select_highlights called on sel_out with the same arguments
    dh_pc,      \* detect_highlights: "start" | "probed" | "analyzed" | "done"
    dh_in,      \* detect_highlights: the video (duration, size, scores) and the weights
    dh_target,  \* detect_highlights: <<adjusted_min, adjusted_max>>
    dh_segments,\* detect_highlights: the list analyze_video returned
    dh_result,  \* detect_highlights: the returned dict
    cv_pc,      \* cut_video: "called" | "loop" | "returned"
    cv_segments,\* cut_video: the segments argument, a list of <<start, end>>
    cv_i,       \* cut_video: the index i of the loop of line 246
    segment_files,   \* cut_video: the files cut so far, in list order
    failed_segments, \* cut_video: the failure entries, in list order
    successful_count,\* cut_video: the counter of lines 243 and 407
    temp_dir,   \* cut_video: "None" | "exists" | "deleted"
    temp_files, \* cut_video: the names of the files under temp_dir
    concat_input,    \* cut_video: the list passed to _concat_videos, <<>> before
    cv_join,    \* cut_video: how the move or the concat of lines 429-439 went
    cv_output,  \* cut_video: the indices the file at output_path holds
    cv_ret,     \* cut_video: the returned value, once cv_pc = "returned"
    cv_ffmpeg,  \* cut_video: "unchecked" | "available" | "unavailable", lines 218-224
    cv_commands,\* cut_video: the results of the commands of the latest iteration
    concat_mode,\* _concat_videos: "none" | "copy" | "reencode", the command it ran
    pv_pc,      \* process_video: the step it is at
    pv_path,    \* process_video: video_path
    pv_failed,  \* process_video: the stage that failed in this run, or "none"
    pv_result,  \* process_video: the returned dict
    pb_pc,      \* process_batch: "collecting" | "stopped" | "returned"
    video_paths,\* process_batch: the list of input paths
    max_workers,\* process_batch: the size of the thread pool
    pb_task,    \* process_batch: for each submitted task, the step it is at
    pb_outcome, \* process_batch: for each task, how its process_video ended
    should_stop,\* the flag of stop_processing
    results,    \* process_batch: the list it returns
    pb_handled, \* process_batch: the futures as_completed has yielded
    pb_files,   \* the files outside any scratch directory: path -> task that wrote it
    pb_shared,  \* accesses of one task to a file another task wrote
    pb_late,    \* tasks started while should_stop was set
    \* detect_silence
    ds_pc,      \* "idle" | "loop" | "returned"
    ds_in,      \* [is_silent, min_silence_len]: the windows (TRUE = silent), ms
    ds_i,       \* i of "for i, silent in enumerate(is_silent)"
    ds_start,   \* start; NoStart for None
    silence_ranges, \* the list returned, ranges in ms
    \* _merge_adjacent_segments
    mg_pc,      \* "idle" | "ready" | "returned"
    mg_in,      \* [segments, target_duration]: the arguments at the call
    mg_segments, \* the list object passed as segments, after the call
    mg_out,     \* the list returned
    \* Config
    cf_file,    \* the configuration file: [exists, valid, tree]
    cf_heap,    \* the dict objects of the sections, by reference (1-based)
    cf_inst,    \* per Config object: [state, had_file, config, calls, fellback]
    cf_last,    \* the last call: [op, inst, path, default, result, calls_before, file]
    cf_ops,     \* the calls made so far
    \* _select_highlights_adaptive
    ad_pc,      \* "idle" | "normal" | "relaxed" | "forced" | "returned"
    ad_in,      \* [segments, target_duration, min_duration, size]
    ad_run,     \* the strategies run so far, each [tier, highlights]
    ad_out,     \* the list returned
    \* _adjust_target_duration
    aj_pc,      \* "idle" | "ready" | "returned"
    aj_in,      \* [duration, size, target_min, target_max]
    aj_out,     \* the pair returned
    \* the files of output.folder during a batch
    op_in,      \* the input paths, each <<folder, stem>>
    op_orientation, \* processing.orientation
    op_pc,      \* per task: the step of process_video it is at
    op_temp,    \* per task: temp_cut_path, NoPath before line 122
    op_final,   \* per task: final_output_path, NoPath before line 141
    op_files    \* the files under output.folder: name -> the task that wrote it

anVars == <<an_pc, an_in, an_out, an_outcome>>

selVars == <<sel_pc, sel_in, sel_out, sel_again>>

dhVars == <<dh_pc, dh_in, dh_target, dh_segments, dh_result>>

cvVars ==
    <<cv_pc, cv_segments, cv_i, segment_files, failed_segments, successful_count,
      temp_dir, temp_files, concat_input, cv_join, cv_output, cv_ret,
      cv_ffmpeg, cv_commands, concat_mode>>

pvVars == <<pv_pc, pv_path, pv_failed, pv_result>>

pbVars ==
    <<pb_pc, video_paths, max_workers, pb_task, pb_outcome, should_stop, results,
      pb_handled, pb_files, pb_shared, pb_late>>

dsVars == <<ds_pc, ds_in, ds_i, ds_start, silence_ranges>>

mgVars == <<mg_pc, mg_in, mg_segments, mg_out>>

\* the variables of the functions checked on their own
cfVars == <<cf_file, cf_heap, cf_inst, cf_last, cf_ops>>

adVars == <<ad_pc, ad_in, ad_run, ad_out>>

ajVars == <<aj_pc, aj_in, aj_out>>

opVars == <<op_in, op_orientation, op_pc, op_temp, op_final, op_files>>

auxVars == <<dsVars, mgVars, cfVars, adVars, ajVars, opVars>>

\* the variables of the components modelled after process_video
laterVars == <<pbVars, auxVars>>

vars == <<anVars, selVars, dhVars, cvVars, pvVars, laterVars>>

\* a component that a specification does not run stays idle
AnIdle == an_pc = "idle" /\ an_in = <<>> /\ an_out = <<>> /\ an_outcome = <<>>

SelIdle == sel_pc = "idle" /\ sel_in = <<>> /\ sel_out = <<>> /\ sel_again = <<>>

DhIdle ==
    /\ dh_pc = "idle"
    /\ dh_in = <<>>
    /\ dh_target = <<>>
    /\ dh_segments = <<>>
    /\ dh_result = <<>>

CvIdle ==
    /\ cv_pc = "idle"
    /\ cv_segments = <<>>
    /\ cv_i = 0
    /\ segment_files = <<>>
    /\ failed_segments = <<>>
    /\ successful_count = 0
    /\ temp_dir = "None"
    /\ temp_files = {}
    /\ concat_input = <<>>
    /\ cv_join = "none"
    /\ cv_output = <<>>
    /\ cv_ret = FALSE
    /\ cv_ffmpeg = "unchecked"
    /\ cv_commands = <<>>
    /\ concat_mode = "none"

PvIdle == pv_pc = "idle" /\ pv_path = "" /\ pv_failed = "none" /\ pv_result = <<>>

PbIdle ==
    /\ pb_pc = "idle"
    /\ video_paths = <<>>
    /\ max_workers = 0
    /\ pb_task = <<>>
    /\ pb_outcome = <<>>
    /\ should_stop = FALSE
    /\ results = <<>>
    /\ pb_handled = {}
    /\ pb_files = <<>>
    /\ pb_shared = {}
    /\ pb_late = {}

\* start = None
NoStart == 0 - 1

DsIdle ==
    /\ ds_pc = "idle"
    /\ ds_in = <<>>
    /\ ds_i = 0
    /\ ds_start = NoStart
    /\ silence_ranges = <<>>

MgIdle == mg_pc = "idle" /\ mg_in = <<>> /\ mg_segments = <<>> /\ mg_out = <<>>

\* a dict without keys
EmptyMap == [k \in {} |-> 0]

\* the dicts of the sections of Config.DEFAULT_CONFIG (config.py:16-85), of
\* which the model keeps app.name and processing.max_workers; the numeral
\* stands for the int
DefaultSections == <<[name |-> "SmartCutElf"], [max_workers |-> "4"]>>

\* the class attribute DEFAULT_CONFIG: section -> reference of its dict
DEFAULT_CONFIG == [app |-> 1, processing |-> 2]

NoFile == [exists |-> FALSE, valid |-> FALSE, tree |-> EmptyMap]

NoCall ==
    [op |-> "none", inst |-> 0, path |-> <<>>, default |-> "None", result |-> "None",
     calls_before |-> 0, file |-> NoFile]

CfIdle ==
    /\ cf_file = NoFile
    /\ cf_heap = DefaultSections
    /\ cf_inst = <<>>
    /\ cf_last = NoCall
    /\ cf_ops = 0

AdIdle == ad_pc = "idle" /\ ad_in = <<>> /\ ad_run = <<>> /\ ad_out = <<>>

AjIdle == aj_pc = "idle" /\ aj_in = <<>> /\ aj_out = <<>>

OpIdle ==
    /\ op_in = <<>>
    /\ op_orientation = "original"
    /\ op_pc = <<>>
    /\ op_temp = <<>>
    /\ op_final = <<>>
    /\ op_files = EmptyMap

AuxIdle == DsIdle /\ MgIdle /\ CfIdle /\ AdIdle /\ AjIdle /\ OpIdle

LaterIdle == PbIdle /\ AuxIdle

-----------------------------------------------------------------------------
(* Units *)

Tick == 1000
\* one second, in milliseconds

ScoreDen == 2
\* a sub-score of the analyzers is k/ScoreDen, 0 <= k <= ScoreDen

WeightDen == 10
\* a weight is k/WeightDen

Abs(x) == IF x < 0 THEN 0 - x ELSE x

Min2(a, b) == IF a <= b THEN a ELSE b

Max2(a, b) == IF a >= b THEN a ELSE b

CeilDiv(a, b) == (a + b - 1) \div b

-----------------------------------------------------------------------------
(* Lists of segments *)

RECURSIVE SumDuration(_)
SumDuration(s) ==
    IF s = <<>> THEN 0 ELSE Head(s).duration + SumDuration(Tail(s))

\* A stable sort puts s[j] behind every element that must precede it: those
\* with a key that sorts first, and those with an equal key that stand earlier.
\* The sorted list is the inverse of that ranking.
ByRank(s, rank) ==
    LET at == [p \in 1..Len(s) |-> CHOOSE j \in 1..Len(s) : rank[j] = p]
    IN  [p \in 1..Len(s) |-> s[at[p]]]

\* list.sort(key=score, reverse=True): stable, equal scores keep their order
SortByScoreDesc(s) ==
    ByRank(s, [j \in 1..Len(s) |->
                  1 + Cardinality({k \in 1..Len(s) :
                                      \/ s[k].score > s[j].score
                                      \/ s[k].score = s[j].score /\ k < j})])

\* list.sort(key=start_time): stable, ascending
SortByStartAscending(s) ==
    ByRank(s, [j \in 1..Len(s) |->
                  1 + Cardinality({k \in 1..Len(s) :
                                      \/ s[k].start_time < s[j].start_time
                                      \/ s[k].start_time = s[j].start_time /\ k < j})])

\* the same sort with reverse=True
SortByStartReversed(s) ==
    LET a == SortByStartAscending(s)
    IN  [k \in 1..Len(a) |-> a[Len(a) + 1 - k]]

\* no sort at all
KeepListOrder(s) == s

SortByStart(s) == SortByStartAscending(s)

-----------------------------------------------------------------------------
(* HighlightDetector.calculate_segment_score                               *)
(*                                                                         *)
(* A score is kept as its numerator over ScoreScale(total_duration):       *)
(*   time_score = 1 - |(start+end)/2/total - 0.5| * 2                      *)
(*              = (total - |start + end - total|) / total.                 *)

ScoreScale(total_duration) ==
    ScoreDen * WeightDen * (IF total_duration > 0 THEN total_duration ELSE 1)

TimeScoreNum(start_time, end_time, total_duration) ==
    IF total_duration > 0
    THEN total_duration - Abs(start_time + end_time - total_duration)
    ELSE 1  \* normalized_position = 0.5, time_score = 1 (denominator 1)

\* composite_score before the final min(), times ScoreScale
CompositeNum(audio_score, video_score, start_time, end_time, total_duration, w) ==
    LET T == IF total_duration > 0 THEN total_duration ELSE 1
    IN  audio_score * w[1] * T
        + video_score * w[2] * T
        + TimeScoreNum(start_time, end_time, total_duration) * w[3] * ScoreDen

calculate_segment_score(audio_score, video_score, start_time, end_time, total_duration, w) ==
    Min2(CompositeNum(audio_score, video_score, start_time, end_time,
                      total_duration, w),
         ScoreScale(total_duration))

-----------------------------------------------------------------------------
(* HighlightDetector.analyze_video: the windows and their scores           *)

NumSegments(total_duration, segment_duration) ==
    CeilDiv(total_duration, segment_duration)

WindowEndUncapped(i, total_duration, segment_duration) ==
    (i + 1) * segment_duration

WindowEnd(i, total_duration, segment_duration) ==
    Min2((i + 1) * segment_duration, total_duration)

\* the dict appended for window i (0-based); aud and vid give the analyzers'
\* sub-scores of each window
ScoredWindow(i, total_duration, segment_duration, w, aud, vid) ==
    LET start_time == i * segment_duration
        end_time == WindowEnd(i, total_duration, segment_duration)
    IN  [index |-> i,
         start_time |-> start_time,
         end_time |-> end_time,
         duration |-> end_time - start_time,
         score |-> calculate_segment_score(aud[i], vid[i], start_time,
                                           end_time, total_duration, w)]

\* the list before the final sort, in index order
Windows(total_duration, segment_duration, w, aud, vid) ==
    [k \in 1..NumSegments(total_duration, segment_duration) |->
        ScoredWindow(k - 1, total_duration, segment_duration, w, aud, vid)]

analyze_video(total_duration, segment_duration, w, aud, vid) ==
    SortByScoreDesc(Windows(total_duration, segment_duration, w, aud, vid))

-----------------------------------------------------------------------------
(* Specification SpecAnalyze: analyze_video on a probed duration           *)

MaxSeconds == 4
\* the longest input of SpecAnalyze, in seconds

MaxWindow == 3
\* the longest window of SpecAnalyze, in seconds

\* weight triples (audio, video, time) in 1/WeightDen: the defaults, and
\* triples that do not sum to 1 or are negative
WeightTriples ==
    {<<4, 4, 2>>, <<10, 10, 10>>, <<0, 0, 0>>, <<0 - 4, 4, 2>>, <<4, 4, 0 - 2>>}

SubScores == {0, ScoreDen}

\* the body of the try of an analyzer raised (a file that does not load, a
\* frame that does not convert)
Failed == 0 - 1

\* what the body of calculate_audio_score or calculate_video_score comes to
\* for one window: a score numerator, or Failed
AnalyzerOutcomes == SubScores \cup {Failed}

\* an except clause that lets the failure through
ExceptReraises(outcome) == outcome

\* audio_analyzer.py:241-243 and video_analyzer.py:276-278: return 0.0
ExceptReturnsNeutral(outcome) == 0

calculate_audio_score(outcome) ==
    IF outcome = Failed THEN ExceptReturnsNeutral(outcome) ELSE outcome

calculate_video_score(outcome) ==
    IF outcome = Failed THEN ExceptReturnsNeutral(outcome) ELSE outcome

\* an exception leaves calculate_segment_score for some window
ScoringRaises(aud, vid) ==
    \E i \in DOMAIN aud :
        calculate_audio_score(aud[i]) = Failed \/ calculate_video_score(vid[i]) = Failed

AnalyzeInit ==
    /\ an_pc = "ready"
    /\ an_in \in [duration : {d * Tick : d \in 1..MaxSeconds} \cup {Tick \div 2},
                  segment_duration : {k * Tick : k \in 1..MaxWindow},
                  w : WeightTriples]
    /\ an_out = <<>>
    /\ an_outcome = <<>>
    /\ SelIdle
    /\ DhIdle
    /\ CvIdle
    /\ PvIdle
    /\ LaterIdle

AnalyzeVideo ==
    /\ an_pc = "ready"
    /\ LET n == NumSegments(an_in.duration, an_in.segment_duration)
       IN  \E aud \in [0..(n - 1) -> AnalyzerOutcomes],
              vid \in [0..(n - 1) -> AnalyzerOutcomes] :
               /\ an_outcome' = [audio |-> aud, video |-> vid]
               /\ IF ScoringRaises(aud, vid)
                  THEN /\ an_out' = <<>>
                       /\ an_pc' = "raised"
                  ELSE /\ an_out' =
                              analyze_video(an_in.duration, an_in.segment_duration, an_in.w,
                                            [i \in 0..(n - 1) |-> calculate_audio_score(aud[i])],
                                            [i \in 0..(n - 1) |-> calculate_video_score(vid[i])])
                       /\ an_pc' = "done"
    /\ UNCHANGED <<an_in, selVars, dhVars, cvVars, pvVars, laterVars>>

AnalyzeNext == AnalyzeVideo

SpecAnalyze == AnalyzeInit /\ [][AnalyzeNext]_vars

-----------------------------------------------------------------------------
(* Claims on analyze_video and calculate_segment_score (SpecAnalyze)       *)

\* C1: every composite score returned by calculate_segment_score is in
\* [0, 1], for every window inside [0, total_duration], every sub-score in
\* [0, 1] and every weight triple, negative weights included.
C1_ScoreInUnitInterval ==
    an_pc = "done" =>
        \A j \in 1..Len(an_out) :
            /\ 0 <= an_out[j].score
            /\ an_out[j].score <= ScoreScale(an_in.duration)

\* the segment of an_out that carries index i
SegmentOfIndex(i) == CHOOSE x \in {an_out[j] : j \in 1..Len(an_out)} : x.index = i

\* C2: the segments of analyze_video, in index order, cover [0, D)
\* contiguously with 0 < duration <= W, there are ceil(D/W) of them, and the
\* returned list holds each index once, ordered by score descending.
C2_WindowsCoverDuration ==
    an_pc = "done" =>
        LET D == an_in.duration
            W == an_in.segment_duration
            n == Len(an_out)
        IN  /\ n = (D + W - 1) \div W
            /\ \A i \in 0..(n - 1) :
                   Cardinality({j \in 1..n : an_out[j].index = i}) = 1
            /\ \A j \in 1..n : an_out[j].index \in 0..(n - 1)
            /\ SegmentOfIndex(0).start_time = 0
            /\ SegmentOfIndex(n - 1).end_time = D
            /\ \A i \in 1..(n - 1) :
                   SegmentOfIndex(i).start_time = SegmentOfIndex(i - 1).end_time
            /\ \A i \in 0..(n - 1) :
                   /\ SegmentOfIndex(i).start_time = i * W
                   /\ SegmentOfIndex(i).duration
                          = SegmentOfIndex(i).end_time - SegmentOfIndex(i).start_time
                   /\ 0 < SegmentOfIndex(i).duration
                   /\ SegmentOfIndex(i).duration <= W
            /\ \A j \in 1..n, k \in 1..n :
                   j < k => an_out[j].score >= an_out[k].score

\* C2 witness: several windows, the last one truncated, and a list that the
\* sort by score has taken out of index order
C2_Witness ==
    /\ an_pc = "done"
    /\ Len(an_out) >= 2
    /\ \E j \in 1..Len(an_out) : an_out[j].duration < an_in.segment_duration
    /\ \E j \in 1..Len(an_out) : an_out[j].index # j - 1

-----------------------------------------------------------------------------
(* HighlightDetector._merge_adjacent_segments                              *)

\* (a + b) / 2 on score numerators; exact when a + b is even
Avg2(a, b) == (a + b) \div 2

\* current_segment after the update of lines 288-290
Absorb(cs, next_segment) ==
    [cs EXCEPT !.end_time = next_segment.end_time,
               !.duration = next_segment.end_time - cs.start_time,
               !.score = Avg2(cs.score, next_segment.score)]

\* the inner while loop: [seg |-> current_segment, j |-> j] at its exit
RECURSIVE MergeInner(_, _, _, _, _)
MergeInner(segments, cs, j, current_duration, target_duration) ==
    IF j > Len(segments) THEN [seg |-> cs, j |-> j]
    ELSE LET next_segment == segments[j]
             gap == next_segment.start_time - cs.end_time
             merged_duration == next_segment.end_time - cs.start_time
         IN  IF gap <= 2 * Tick
                  /\ 10 * (current_duration + merged_duration) <= 12 * target_duration
             THEN MergeInner(segments, Absorb(cs, next_segment), j + 1,
                             current_duration, target_duration)
             ELSE [seg |-> cs, j |-> j]

\* the outer while loop from position i (1-based) on
RECURSIVE MergeOuter(_, _, _, _, _)
MergeOuter(segments, i, merged, current_duration, target_duration) ==
    IF i > Len(segments) \/ current_duration >= target_duration THEN merged
    ELSE LET r == MergeInner(segments, segments[i], i + 1, current_duration,
                             target_duration)
         IN  MergeOuter(segments, r.j, Append(merged, r.seg),
                        current_duration + r.seg.duration, target_duration)

_merge_adjacent_segments(segments, target_duration) ==
    IF Len(segments) <= 1 THEN segments
    ELSE MergeOuter(SortByStart(segments), 1, <<>>, 0, target_duration)

-----------------------------------------------------------------------------
(* HighlightDetector.select_highlights                                     *)

FilterMinDuration(segments, d) ==
    SelectSeq(segments, LAMBDA x : x.duration >= d)

\* valid_segments, lines 185-192
ValidSegments(segments, min_segment_duration) ==
    IF FilterMinDuration(segments, min_segment_duration) # <<>>
    THEN FilterMinDuration(segments, min_segment_duration)
    ELSE IF FilterMinDuration(segments, 3 * Tick) # <<>>
         THEN FilterMinDuration(segments, 3 * Tick)
         ELSE segments

\* current_duration >= min_target, with min_target = target_duration * 0.8
ReachedMin(current_duration, target_duration) ==
    10 * current_duration >= 8 * target_duration

\* current_duration + duration <= max_target, max_target = target_duration * 1.2
Fits(current_duration, duration, target_duration) ==
    10 * (current_duration + duration) <= 12 * target_duration

\* the first loop over sorted_segments, from position k on
RECURSIVE FirstPass(_, _, _, _, _)
FirstPass(sorted_segments, k, selected, current_duration, target_duration) ==
    IF k > Len(sorted_segments)
    THEN [selected |-> selected, current_duration |-> current_duration]
    ELSE LET segment == sorted_segments[k]
             take == Fits(current_duration, segment.duration, target_duration)
             sel == IF take THEN Append(selected, segment) ELSE selected
             cur == IF take THEN current_duration + segment.duration
                    ELSE current_duration
         IN  IF ReachedMin(cur, target_duration)
             THEN [selected |-> sel, current_duration |-> cur]
             ELSE FirstPass(sorted_segments, k + 1, sel, cur, target_duration)

\* the loop over remaining_segments, from position k on
RECURSIVE SecondPass(_, _, _, _, _)
SecondPass(remaining_segments, k, selected, current_duration, target_duration) ==
    IF k > Len(remaining_segments)
    THEN [selected |-> selected, current_duration |-> current_duration]
    ELSE LET segment == remaining_segments[k]
         IN  IF Fits(current_duration, segment.duration, target_duration)
             THEN IF ReachedMin(current_duration + segment.duration, target_duration)
                  THEN [selected |-> Append(selected, segment),
                        current_duration |-> current_duration + segment.duration]
                  ELSE SecondPass(remaining_segments, k + 1,
                                  Append(selected, segment),
                                  current_duration + segment.duration,
                                  target_duration)
             ELSE SecondPass(remaining_segments, k + 1, selected,
                             current_duration, target_duration)

\* selected and current_duration after both passes, lines 199-232
AfterPasses(sorted_segments, target_duration) ==
    LET p1 == FirstPass(sorted_segments, 1, <<>>, 0, target_duration)
        selected_indices == {p1.selected[j].index : j \in 1..Len(p1.selected)}
        remaining_segments ==
            SelectSeq(sorted_segments, LAMBDA x : x.index \notin selected_indices)
    IN  IF ~ReachedMin(p1.current_duration, target_duration)
        THEN SecondPass(remaining_segments, 1, p1.selected, p1.current_duration,
                        target_duration)
        ELSE p1

\* line 235: the merge runs only while the total is still short
NeedsMerge(p, target_duration) ==
    ~ReachedMin(p.current_duration, target_duration) /\ Len(p.selected) > 0

select_highlights(segments, target_duration, min_segment_duration) ==
    IF segments = <<>> THEN <<>>
    ELSE LET sorted_segments ==
                 SortByScoreDesc(ValidSegments(segments, min_segment_duration))
             p == AfterPasses(sorted_segments, target_duration)
             selected ==
                 IF NeedsMerge(p, target_duration)
                 THEN _merge_adjacent_segments(p.selected, target_duration)
                 ELSE p.selected
         IN  SortByStart(selected)

-----------------------------------------------------------------------------
(* Specification SpecSelect: select_highlights on a candidate list, then   *)
(* on its own result                                                       *)

MaxSegs == 3
\* the longest candidate list of SpecSelect

SegDurations == {2 * Tick, 6 * Tick}

SegGaps == {Tick, 3 * Tick}

\* score numerators; multiples of 2^MaxSegs keep Avg2 exact over a merge
SegScores == {2 ^ MaxSegs, 2 * (2 ^ MaxSegs)}

SelTargets == {4 * Tick, 7 * Tick, 10 * Tick}

\* 2.0 (relaxed tier) and 5.0 (normal files)
SelMinDurations == {2 * Tick, 5 * Tick}

\* the start of the k-th segment of a timeline of (duration, gap before, score)
RECURSIVE TimelineStart(_, _)
TimelineStart(f, k) ==
    IF k = 1 THEN f[1][2]
    ELSE TimelineStart(f, k - 1) + f[k - 1][1] + f[k][2]

TimelineSegment(f, k) ==
    [index |-> k - 1,
     start_time |-> TimelineStart(f, k),
     end_time |-> TimelineStart(f, k) + f[k][1],
     duration |-> f[k][1],
     score |-> f[k][3]]

ListOrders(n) ==
    {p \in [1..n -> 1..n] : \A a \in 1..n, b \in 1..n : a # b => p[a] # p[b]}

\* the list of the segments of timeline f in the order p
CandidateList(f, p) == [k \in 1..Len(p) |-> TimelineSegment(f, p[k])]

\* the arguments of a call: every list of n pairwise disjoint segments of
\* the given durations and gaps, in every order
SelectArguments(n, durations, gaps, targets) ==
    {[segments |-> CandidateList(f, p),
      target_duration |-> T,
      min_segment_duration |-> m] :
        f \in [1..n -> durations \X gaps \X SegScores],
        p \in ListOrders(n),
        T \in targets,
        m \in SelMinDurations}

\* every list of 1..MaxSegs pairwise disjoint segments, in every order
SelectInit ==
    /\ sel_pc = "ready"
    /\ \E n \in 1..MaxSegs :
           sel_in \in SelectArguments(n, SegDurations, SegGaps, SelTargets)
    /\ sel_out = <<>>
    /\ sel_again = <<>>
    /\ AnIdle
    /\ DhIdle
    /\ CvIdle
    /\ PvIdle
    /\ LaterIdle

SelectHighlights ==
    /\ sel_pc = "ready"
    /\ sel_out' = select_highlights(sel_in.segments, sel_in.target_duration,
                                    sel_in.min_segment_duration)
    /\ sel_pc' = "selected"
    /\ UNCHANGED <<sel_in, sel_again, anVars, laterVars, dhVars, cvVars, pvVars>>

SelectAgain ==
    /\ sel_pc = "selected"
    /\ sel_again' = select_highlights(sel_out, sel_in.target_duration,
                                      sel_in.min_segment_duration)
    /\ sel_pc' = "reselected"
    /\ UNCHANGED <<sel_in, sel_out, anVars, laterVars, dhVars, cvVars, pvVars>>

SelectNext == SelectHighlights \/ SelectAgain

SpecSelect == SelectInit /\ [][SelectNext]_vars

-----------------------------------------------------------------------------
(* Claims on select_highlights (SpecSelect)                                *)

\* total within [0.8, 1.2] x target_duration
InTargetBand(total, target_duration) ==
    /\ 10 * total >= 8 * target_duration
    /\ 10 * total <= 12 * target_duration

\* C3 as stated: select_highlights is idempotent; for every candidate list
\* (equal scores and unequal durations included), if the result R has its
\* total within [0.8 T, 1.2 T], selecting again from R returns exactly R.
C3_Idempotent ==
    (sel_pc = "reselected"
        /\ InTargetBand(SumDuration(sel_out), sel_in.target_duration))
    => sel_again = sel_out

\* candidates of equal score stand in the list in ascending start_time order
TiesInTimeOrder(segments) ==
    \A a \in 1..Len(segments), b \in 1..Len(segments) :
        (a < b /\ segments[a].score = segments[b].score)
            => segments[a].start_time <= segments[b].start_time

\* every segment of the result is one of the candidates: nothing was merged
OnlyCandidates(result, segments) ==
    \A j \in 1..Len(result) : \E k \in 1..Len(segments) : result[j] = segments[k]

\* C3 amended: if R has its total within [0.8 T, 1.2 T], holds only
\* candidates of S (no segments were merged) and equal-score candidates stand
\* in S in ascending start_time order, selecting again from R returns exactly R.
C3_IdempotentUnmergedTimeOrderedTies ==
    (sel_pc = "reselected"
        /\ InTargetBand(SumDuration(sel_out), sel_in.target_duration)
        /\ OnlyCandidates(sel_out, sel_in.segments)
        /\ TiesInTimeOrder(sel_in.segments))
    => sel_again = sel_out

\* C3 witness: a result in the band, of several unmerged candidates of
\* unequal durations and equal scores, some candidate left out, selected again
C3_Witness ==
    /\ sel_pc = "reselected"
    /\ InTargetBand(SumDuration(sel_out), sel_in.target_duration)
    /\ OnlyCandidates(sel_out, sel_in.segments)
    /\ TiesInTimeOrder(sel_in.segments)
    /\ Len(sel_out) >= 2
    /\ Len(sel_out) < Len(sel_in.segments)
    /\ sel_out[1].duration # sel_out[2].duration
    /\ sel_out[1].score = sel_out[2].score
    /\ sel_again = sel_out

-----------------------------------------------------------------------------
(* HighlightDetector._adjust_target_duration                               *)

MegaByte == 1048576
\* 1024 * 1024 bytes

\* file_size_mb < 100, on the size in bytes
SmallFile(size) == size < 100 * MegaByte

\* ratio_min and ratio_max in tenths: 0.5 / 0.8 over 200 s, else 0.6 / 0.9
RatioMin(original_duration) == IF original_duration > 200 * Tick THEN 5 ELSE 6

RatioMaxAlways8(original_duration) == 8

RatioMax(original_duration) == IF original_duration > 200 * Tick THEN 8 ELSE 9

\* <<adjusted_min, adjusted_max>>
_adjust_target_duration(original_duration, size, target_min, target_max) ==
    IF SmallFile(size) \/ original_duration < 300 * Tick
    THEN LET adjusted_min ==
                 Max2(60 * Tick, (original_duration * RatioMin(original_duration)) \div 10)
             adjusted_max ==
                 Min2(target_max, (original_duration * RatioMax(original_duration)) \div 10)
         IN  IF adjusted_min > adjusted_max
             THEN <<(adjusted_max * 8) \div 10, adjusted_max>>
             ELSE <<adjusted_min, adjusted_max>>
    ELSE <<target_min, target_max>>

-----------------------------------------------------------------------------
(* HighlightDetector._select_highlights_adaptive                           *)

\* a test that sends every selection on to the next strategy
InsufficientAlways(highlights, min_duration, tenths) == TRUE

\* not highlights or sum(duration) < min_duration * tenths / 10
Insufficient(highlights, min_duration, tenths) ==
    highlights = <<>> \/ 10 * SumDuration(highlights) < tenths * min_duration

\* max(3, int(min_duration / 10))
NeededSegments(min_duration) == Max2(3, min_duration \div (10 * Tick))

\* a last strategy that selects nothing
ForcedSelectionNone(segments, min_duration) == <<>>

\* the forced selection of lines 475-482
ForcedSelection(segments, min_duration) ==
    LET sorted_segments == SortByScoreDesc(segments)
    IN  SortByStart(SubSeq(sorted_segments, 1,
                           Min2(Len(sorted_segments), NeededSegments(min_duration))))

\* 1, 2 or 3: the last strategy _select_highlights_adaptive runs
AdaptiveTier(segments, target_duration, min_duration, size) ==
    LET min_segment_duration == IF SmallFile(size) THEN 3 * Tick ELSE 5 * Tick
    IN  IF Insufficient(select_highlights(segments, target_duration,
                                          min_segment_duration), min_duration, 7)
        THEN IF Insufficient(select_highlights(segments, target_duration, 2 * Tick),
                             min_duration, 5)
             THEN 3
             ELSE 2
        ELSE 1

_select_highlights_adaptive(segments, target_duration, min_duration, size) ==
    LET min_segment_duration == IF SmallFile(size) THEN 3 * Tick ELSE 5 * Tick
        tier == AdaptiveTier(segments, target_duration, min_duration, size)
    IN  IF tier = 1
        THEN select_highlights(segments, target_duration, min_segment_duration)
        ELSE IF tier = 2
             THEN select_highlights(segments, target_duration, 2 * Tick)
             ELSE ForcedSelection(segments, min_duration)

-----------------------------------------------------------------------------
(* Specification SpecDetect: HighlightDetector.detect_highlights           *)

TargetDurationMin == 180
\* target_duration_min, seconds

TargetDurationMax == 300
\* target_duration_max, seconds

SegmentDuration == 10
\* segment_duration, seconds

MaxMult == 2
\* the score patterns of SpecDetect: window i scores (i * mult + off) mod (ScoreDen + 1)

\* probed durations, in seconds: no content, one short window, the short
\* and the long small-file branch, whole and truncated last windows
DetectSeconds == {0, 8, 40, 150, 250, 600, 605}

\* probed sizes in bytes: under and over 100 MB
DetectSizes == {5 * MegaByte, 500 * MegaByte}

DetectWeights == {<<4, 4, 2>>, <<0, 0, 0>>}

AudioPattern(mult, off) == [i \in 0..100 |-> (i * mult + off) % (ScoreDen + 1)]

VideoPattern(mult, off) == [i \in 0..100 |-> (i * off + mult) % (ScoreDen + 1)]

DetectInit ==
    /\ dh_pc = "start"
    /\ dh_in \in [duration : {d * Tick : d \in DetectSeconds},
                  size : DetectSizes,
                  w : DetectWeights,
                  mult : 0..MaxMult,
                  off : 0..ScoreDen]
    /\ dh_target = <<>>
    /\ dh_segments = <<>>
    /\ dh_result = <<>>
    /\ AnIdle
    /\ SelIdle
    /\ CvIdle
    /\ PvIdle
    /\ LaterIdle

\* lines 325-340: the probe, then the adjusted target window
DetectProbe ==
    /\ dh_pc = "start"
    /\ \/ /\ dh_result' = [success |-> FALSE, error |-> "no video info"]
          /\ dh_pc' = "done"
          /\ UNCHANGED dh_target
       \/ /\ dh_target' = _adjust_target_duration(dh_in.duration, dh_in.size,
                                                  TargetDurationMin * Tick,
                                                  TargetDurationMax * Tick)
          /\ dh_pc' = "probed"
          /\ UNCHANGED dh_result
    /\ UNCHANGED <<dh_in, dh_segments, anVars, laterVars, selVars, cvVars, pvVars>>

\* the list analyze_video returns: empty when its own probe or the audio
\* extraction fails (lines 53-79)
AnalyzeOutcome(ok) ==
    IF ok
    THEN analyze_video(dh_in.duration, SegmentDuration * Tick, dh_in.w,
                       AudioPattern(dh_in.mult, dh_in.off),
                       VideoPattern(dh_in.mult, dh_in.off))
    ELSE <<>>

\* lines 345-351
DetectAnalyze ==
    /\ dh_pc = "probed"
    /\ \E ok \in BOOLEAN :
           /\ dh_segments' = AnalyzeOutcome(ok)
           /\ IF AnalyzeOutcome(ok) = <<>>
              THEN /\ dh_result' = [success |-> FALSE, error |-> "analysis failed"]
                   /\ dh_pc' = "done"
              ELSE /\ dh_pc' = "analyzed"
                   /\ UNCHANGED dh_result
    /\ UNCHANGED <<dh_in, dh_target, anVars, laterVars, selVars, cvVars, pvVars>>

\* the flag if it followed success
InRangeWheneverSuccess(total_duration, adjusted_min, adjusted_max) == TRUE

\* adjusted_min <= total_duration <= adjusted_max
InRange(total_duration, adjusted_min, adjusted_max) ==
    adjusted_min <= total_duration /\ total_duration <= adjusted_max

RECURSIVE SumScore(_)
SumScore(s) == IF s = <<>> THEN 0 ELSE Head(s).score + SumScore(Tail(s))

\* the dict of lines 380-392; average_score is score_sum / segment_count
HighlightResult(highlights, adjusted_min, adjusted_max) ==
    [success |-> TRUE,
     highlights |-> highlights,
     time_ranges |-> [k \in 1..Len(highlights) |->
                         <<highlights[k].start_time, highlights[k].end_time>>],
     total_duration |-> SumDuration(highlights),
     segment_count |-> Len(highlights),
     score_sum |-> SumScore(highlights),
     in_target_range |-> InRange(SumDuration(highlights), adjusted_min, adjusted_max),
     target_min |-> adjusted_min,
     target_max |-> adjusted_max,
     original_duration |-> dh_in.duration,
     file_size |-> dh_in.size]

\* lines 363-406
DetectSelect ==
    /\ dh_pc = "analyzed"
    /\ LET target_duration == (dh_target[1] + dh_target[2]) \div 2
           highlights == _select_highlights_adaptive(dh_segments, target_duration,
                                                     dh_target[1], dh_in.size)
       IN  dh_result' = IF highlights = <<>>
                        THEN [success |-> FALSE, error |-> "no highlights"]
                        ELSE HighlightResult(highlights, dh_target[1], dh_target[2])
    /\ dh_pc' = "done"
    /\ UNCHANGED <<dh_in, dh_target, dh_segments, anVars, laterVars, selVars, cvVars, pvVars>>

DetectNext == DetectProbe \/ DetectAnalyze \/ DetectSelect

SpecDetect == DetectInit /\ [][DetectNext]_vars

-----------------------------------------------------------------------------
(* Claims on detect_highlights (SpecDetect)                                *)

StartsAscending(highlights) ==
    \A j \in 1..Len(highlights), k \in 1..Len(highlights) :
        j < k => highlights[j].start_time < highlights[k].start_time

\* C4: a 600 s input with the nominal target (180, 300) s and 10 s windows
\* yields 60 candidates and, whatever the scores and the file size, a
\* selection with total_duration in [144, 360] s in ascending start_time order.
C4_Scenario600 ==
    (dh_pc = "done" /\ dh_in.duration = 600 * Tick /\ dh_segments # <<>>)
    => /\ Len(dh_segments) = 60
       /\ dh_result.success
       /\ dh_result.total_duration = SumDuration(dh_result.highlights)
       /\ dh_result.total_duration >= 144 * Tick
       /\ dh_result.total_duration <= 360 * Tick
       /\ StartsAscending(dh_result.highlights)

\* C4 witness: the 600 s input of normal size, selected in an order of
\* scores that is not the order of time
C4_Witness ==
    /\ dh_pc = "done"
    /\ dh_in.duration = 600 * Tick
    /\ ~SmallFile(dh_in.size)
    /\ dh_segments # <<>>
    /\ dh_result.success
    /\ dh_result.total_duration = 200 * Tick
    /\ \E j \in 1..(Len(dh_result.highlights) - 1) :
           dh_result.highlights[j].score < dh_result.highlights[j + 1].score
    /\ \E j \in 1..(Len(dh_result.highlights) - 1) :
           dh_result.highlights[j].end_time < dh_result.highlights[j + 1].start_time

\* the 40 s input with a small file, once its target window is adjusted
Scenario40 ==
    /\ dh_target # <<>>
    /\ dh_in.duration = 40 * Tick
    /\ SmallFile(dh_in.size)

-----------------------------------------------------------------------------
(* VideoProcessor.cut_video                                                *)
(*                                                                         *)
(* The loop of line 246 cuts one segment after the other: the call of      *)
(* subprocess.run for segment i returns before the call for segment i + 1  *)
(* is made.  An entry of segment_files is the Path of the source list with *)
(* the index, the start and the time the cut took written beside it.       *)
(* cv_commands holds the results of the encoder calls the latest iteration *)
(* made.                                                                   *)

MaxCuts == 3
\* the longest list of ranges passed by a direct call

\* the ranges of a direct call: the third lasts 0.05 s, the last two are
\* rejected by line 228
CutRanges ==
    {<<0, 2 * Tick>>, <<5 * Tick, 9 * Tick>>, <<10 * Tick, 10 * Tick + 50>>,
     <<3 * Tick, 3 * Tick>>, <<0 - Tick, Tick>>}

\* how the two commands of lines 275 and 306 end
CutCommandResults == {"ok", "timeout", "error_backup_ok", "error_backup_error", "error_backup_timeout"}

\* the file at temp_segment_file once the commands have ended
CutFileStates == {"missing", "empty", "good"}

\* seconds a cut takes: at once, or close to the timeout of line 276
CutTimes == {1, 299}

\* how the move of line 431 or the concat of line 434 ends, and whether
\* line 438 finds the output
JoinOutcomes == {"ok", "failed", "no_output"}

\* line 230: end - start < 0.5, which line 231 logs as a warning
TooShortWarned(range) == range[2] - range[1] < Tick \div 2

\* the backup command run after a timeout of the first command as well
CommandsRetryAfterTimeout(cmd) ==
    CASE cmd = "ok" -> <<"ok">>
      [] cmd = "timeout" -> <<"timeout", "ok">>
      [] cmd = "error_backup_ok" -> <<"error", "ok">>
      [] cmd = "error_backup_error" -> <<"error", "error">>
      [] cmd = "error_backup_timeout" -> <<"error", "timeout">>

\* the results of the calls of subprocess.run one iteration makes, in the
\* order made: line 275, then line 306 inside the test of line 287
Commands(cmd) ==
    CASE cmd = "ok" -> <<"ok">>
      [] cmd = "timeout" -> <<"timeout">>
      [] cmd = "error_backup_ok" -> <<"error", "ok">>
      [] cmd = "error_backup_error" -> <<"error", "error">>
      [] cmd = "error_backup_timeout" -> <<"error", "timeout">>

\* line 228: start < 0 or end <= start
InvalidRange(range) == range[1] < 0 \/ range[2] <= range[1]

\* the 'error' of the entry a segment adds to failed_segments, "" if it adds none
SegmentError(cmd, file, rename_ok) ==
    IF cmd \in {"timeout", "error_backup_timeout"} THEN "Timeout"
    ELSE IF cmd = "error_backup_error" THEN "stderr"
    ELSE IF file = "missing" THEN "File not created"
    ELSE IF file = "empty" THEN "Empty file"
    ELSE IF ~rename_ok THEN "Rename failed"
    ELSE ""

\* the files under temp_dir after the iteration for index i
FilesAfterSegment(files, i, count, error, file) ==
    IF error = "" THEN files \cup {<<"segment", count>>}
    ELSE IF error \in {"File not created", "Empty file"} THEN files
    ELSE IF error = "Rename failed" \/ file # "missing" THEN files \cup {<<"temp_segment", i>>}
    ELSE files

PrependFile(files, f) == <<f>> \o files

\* line 406
AppendFile(files, f) == Append(files, f)

LeaveLoop(i, n) == n

\* the for statement of line 246, after a continue as after line 408
NextIndex(i, n) == i + 1

KeepTree(dir) == dir

\* the finally of lines 459-466
Cleanup(dir) == IF dir = "exists" THEN "deleted" ELSE dir

\* the original indices of a list of segment files
Indices(files) == [k \in 1..Len(files) |-> files[k].index]

FfmpegCheckSkipped(pre) == FALSE

\* lines 218-224: 'ffmpeg -version' raises, times out or returns non-zero
FfmpegCheckFails(pre) == pre = "ffmpeg_unavailable"

\* the default of the parameter reencode of _concat_videos, line 468; the
\* call of line 434 passes no third argument
ReencodeDefault == FALSE

\* lines 507-533: the command _concat_videos builds
ConcatCommandMode(reencode) == IF reencode THEN "reencode" ELSE "copy"

\* lines 208-239: the empty list, the check of ffmpeg, the ranges, mkdtemp
CutBegin ==
    /\ cv_pc = "called"
    /\ \E pre \in {"ok", "ffmpeg_unavailable", "mkdtemp_failed"} :
           /\ cv_ffmpeg' = IF cv_segments = <<>> THEN "unchecked"
                           ELSE IF pre = "ffmpeg_unavailable" THEN "unavailable"
                           ELSE "available"
           /\ IF \/ cv_segments = <<>>
                 \/ FfmpegCheckFails(pre)
                 \/ \E k \in 1..Len(cv_segments) : InvalidRange(cv_segments[k])
                 \/ pre = "mkdtemp_failed"
              THEN /\ cv_pc' = "returned"
                   /\ cv_ret' = FALSE
                   /\ temp_dir' = Cleanup(temp_dir)
              ELSE /\ cv_pc' = "loop"
                   /\ temp_dir' = "exists"
                   /\ UNCHANGED cv_ret
    /\ UNCHANGED <<cv_segments, cv_i, segment_files, failed_segments, successful_count,
                   temp_files, concat_input, cv_join, cv_output, concat_mode,
                   cv_commands>>
    /\ UNCHANGED <<anVars, laterVars, selVars, dhVars, pvVars>>

\* lines 246-408: one iteration of the loop
CutSegment ==
    /\ cv_pc = "loop"
    /\ cv_i < Len(cv_segments)
    /\ \E cmd \in CutCommandResults, file \in CutFileStates, rename_ok \in BOOLEAN,
          seconds \in CutTimes :
           LET range == cv_segments[cv_i + 1]
               error == SegmentError(cmd, file, rename_ok)
           IN  /\ IF error = ""
                  THEN /\ segment_files' =
                              AppendFile(segment_files,
                                         [name |-> <<"segment", successful_count>>,
                                          index |-> cv_i,
                                          start |-> range[1],
                                          took |-> seconds * Tick])
                       /\ successful_count' = successful_count + 1
                       /\ UNCHANGED failed_segments
                  ELSE /\ failed_segments' =
                              Append(failed_segments,
                                     [index |-> cv_i, start |-> range[1],
                                      end |-> range[2], error |-> error])
                       /\ UNCHANGED <<segment_files, successful_count>>
               /\ temp_files' = FilesAfterSegment(temp_files, cv_i, successful_count,
                                                  error, file)
               /\ cv_commands' = Commands(cmd)
    /\ cv_i' = NextIndex(cv_i, Len(cv_segments))
    /\ UNCHANGED <<cv_pc, cv_segments, temp_dir, concat_input, cv_join, cv_output, cv_ret,
                   cv_ffmpeg, concat_mode>>
    /\ UNCHANGED <<anVars, laterVars, selVars, dhVars, pvVars>>

\* lines 410-466: the join of the files cut, the check of the output, the
\* return and the finally
CutFinish ==
    /\ cv_pc = "loop"
    /\ cv_i >= Len(cv_segments)
    /\ \E join \in JoinOutcomes :
           IF segment_files = <<>>
           THEN /\ cv_ret' = FALSE
                /\ UNCHANGED <<concat_input, cv_join, cv_output, concat_mode>>
           ELSE /\ concat_input' = IF Len(segment_files) = 1 THEN <<>> ELSE segment_files
                /\ concat_mode' = IF Len(segment_files) = 1 THEN concat_mode
                                  ELSE ConcatCommandMode(ReencodeDefault)
                /\ cv_join' = join
                /\ cv_output' = IF join = "ok" THEN Indices(segment_files) ELSE <<>>
                /\ cv_ret' = (join = "ok")
    /\ temp_dir' = Cleanup(temp_dir)
    /\ temp_files' = IF Cleanup(temp_dir) = "deleted" THEN {} ELSE temp_files
    /\ cv_pc' = "returned"
    /\ UNCHANGED <<cv_segments, cv_i, segment_files, failed_segments, successful_count,
                   cv_ffmpeg, cv_commands>>
    /\ UNCHANGED <<anVars, laterVars, selVars, dhVars, pvVars>>

\* the timeout in seconds each call of subprocess.run is given, 0 for none:
\* get_video_info (video_processor.py:76-83), extract_audio (170), the
\* check of ffmpeg (219-220), the cut (275-276), the backup cut (306-307),
\* _concat_videos (535), resize_video (617)
CallTimeout(call) ==
    CASE call = "probe" -> 0
      [] call = "extract_audio" -> 0
      [] call = "version" -> 10
      [] call = "cut" -> 300
      [] call = "backup_cut" -> 300
      [] call = "concat" -> 0
      [] call = "resize" -> 0

\* subprocess.run returns or raises TimeoutExpired within its timeout; with
\* no timeout it waits for as long as the process runs
MayBlockForever(call) == CallTimeout(call) = 0

\* line 434 and 535: the ffmpeg of _concat_videos never exits
CutConcatBlocks ==
    /\ cv_pc = "loop"
    /\ cv_i >= Len(cv_segments)
    /\ Len(segment_files) >= 2
    /\ MayBlockForever("concat")
    /\ cv_pc' = "blocked_concat"
    /\ concat_input' = segment_files
    /\ concat_mode' = ConcatCommandMode(ReencodeDefault)
    /\ UNCHANGED <<cv_segments, cv_i, segment_files, failed_segments, successful_count,
                   temp_dir, temp_files, cv_join, cv_output, cv_ret, cv_ffmpeg,
                   cv_commands>>
    /\ UNCHANGED <<anVars, laterVars, selVars, dhVars, pvVars>>

-----------------------------------------------------------------------------
(* Specification SpecCut: cut_video called with any list of ranges         *)

CutInit ==
    /\ cv_pc = "called"
    /\ \E n \in 0..MaxCuts : cv_segments \in [1..n -> CutRanges]
    /\ cv_i = 0
    /\ segment_files = <<>>
    /\ failed_segments = <<>>
    /\ successful_count = 0
    /\ temp_dir = "None"
    /\ temp_files = {}
    /\ concat_input = <<>>
    /\ cv_join = "none"
    /\ cv_output = <<>>
    /\ cv_ret = FALSE
    /\ cv_ffmpeg = "unchecked"
    /\ cv_commands = <<>>
    /\ concat_mode = "none"
    /\ AnIdle
    /\ SelIdle
    /\ DhIdle
    /\ PvIdle
    /\ LaterIdle

CutNext == CutBegin \/ CutSegment \/ CutFinish \/ CutConcatBlocks

SpecCut == CutInit /\ [][CutNext]_vars

-----------------------------------------------------------------------------
(* Specification SpecWorkflow: VideoProcessingWorkflow.process_video       *)
(*                                                                         *)
(* process_video runs detect_highlights and cut_video as they are modelled *)
(* above and waits for each to return.  pv_failed is written beside the    *)
(* run: the stage whose collaborator reported a failure.  The texts of the *)
(* 'error' entries are given in English:                                   *)
(*   "file validation failed"     '文件验证失败: ...'         (line 70)    *)
(*   "ffmpeg not installed"       'FFmpeg未安装...'           (line 80)    *)
(*   "reading video info failed"  '读取视频信息失败: ...'     (line 86)    *)
(*   "no video info"              '无法获取视频信息'          (line 93)    *)
(*   "video cut failed"           '视频剪辑失败'              (line 136)   *)
(*   "video resize failed"        '视频画面调整失败'          (line 167)   *)
(*   "exception"                  str(e)                      (line 199)   *)
(* processing_time, a reading of the clock, is left out of the result.     *)

\* durations in seconds of the videos process_video is given
WorkflowSeconds == {8, 25, 40}

\* what get_video_info reads of a video, and the scores its windows get
WorkflowVideos ==
    [duration : {d * Tick : d \in WorkflowSeconds},
     size : {5 * MegaByte},
     w : {<<4, 4, 2>>},
     mult : 0..MaxMult,
     off : 0..ScoreDen]

\* the dict of lines 68-72, 78-95, 134-138, 165-169 and 197-201
FailureResult(error, video_path) ==
    [success |-> FALSE, error |-> error, input_path |-> video_path]

\* lines 112-113: highlight_result.copy() with input_path set
CopyWithInputPath(highlight_result, video_path) ==
    [key \in DOMAIN highlight_result \cup {"input_path"} |->
        IF key = "input_path" THEN video_path ELSE highlight_result[key]]

\* the dict of lines 179-188
SuccessResult(video_path, final_output_path, subtitle_path, highlight_result) ==
    [success |-> TRUE,
     input_path |-> video_path,
     output_path |-> final_output_path,
     subtitle_path |-> subtitle_path,
     highlights |-> highlight_result.highlights,
     total_duration |-> highlight_result.total_duration,
     segment_count |-> highlight_result.segment_count]

CutNeverFailed(success) == FALSE

\* line 133: not success
CutFailed(success) == ~success

ResizeNeverFailed(resize_success) == FALSE

\* line 164: not resize_success
ResizeFailed(resize_success) == ~resize_success

WorkflowInit ==
    /\ pv_pc = "validate"
    /\ pv_path = "input.mp4"
    /\ pv_failed = "none"
    /\ pv_result = <<>>
    /\ AnIdle
    /\ SelIdle
    /\ DhIdle
    /\ CvIdle
    /\ LaterIdle

\* lines 66-72
PvValidate ==
    /\ pv_pc = "validate"
    /\ \E valid \in BOOLEAN :
           IF valid
           THEN /\ pv_pc' = "probe"
                /\ UNCHANGED <<pv_failed, pv_result>>
           ELSE /\ pv_pc' = "done"
                /\ pv_failed' = "validation"
                /\ pv_result' = FailureResult("file validation failed", pv_path)
    /\ UNCHANGED <<pv_path, anVars, laterVars, selVars, dhVars, cvVars>>

\* lines 75-109: get_video_info, then the call of detect_highlights
PvProbe ==
    /\ pv_pc = "probe"
    /\ \E probe \in {"ok", "FileNotFoundError", "Exception", "empty"},
          video \in WorkflowVideos :
           IF probe = "ok"
           THEN /\ pv_pc' = "detect"
                /\ dh_pc' = "start"
                /\ dh_in' = video
                /\ UNCHANGED <<pv_failed, pv_result>>
           ELSE /\ pv_pc' = "done"
                /\ pv_failed' = "probe"
                /\ pv_result' =
                       FailureResult(IF probe = "FileNotFoundError"
                                     THEN "ffmpeg not installed"
                                     ELSE IF probe = "Exception"
                                          THEN "reading video info failed"
                                          ELSE "no video info",
                                     pv_path)
                /\ UNCHANGED <<dh_pc, dh_in>>
    /\ UNCHANGED <<pv_path, dh_target, dh_segments, dh_result, anVars, laterVars, selVars, cvVars>>

\* lines 111-131: the result of detect_highlights, then the call of cut_video
PvAfterDetect ==
    /\ pv_pc = "detect"
    /\ dh_pc = "done"
    /\ IF ~dh_result.success
       THEN /\ pv_pc' = "done"
            /\ pv_failed' = "highlight"
            /\ pv_result' = CopyWithInputPath(dh_result, pv_path)
            /\ UNCHANGED <<cv_pc, cv_segments>>
       ELSE /\ pv_pc' = "cut"
            /\ cv_pc' = "called"
            /\ cv_segments' = dh_result.time_ranges
            /\ UNCHANGED <<pv_failed, pv_result>>
    /\ UNCHANGED <<pv_path, cv_i, segment_files, failed_segments, successful_count,
                   temp_dir, temp_files, concat_input, cv_join, cv_output, cv_ret,
                   cv_ffmpeg, cv_commands, concat_mode>>
    /\ UNCHANGED <<anVars, laterVars, selVars, dhVars>>

\* lines 133-138
PvAfterCut ==
    /\ pv_pc = "cut"
    /\ cv_pc = "returned"
    /\ pv_failed' = IF cv_ret THEN pv_failed ELSE "cut"
    /\ IF CutFailed(cv_ret)
       THEN /\ pv_pc' = "done"
            /\ pv_result' = FailureResult("video cut failed", pv_path)
       ELSE /\ pv_pc' = "resize"
            /\ UNCHANGED pv_result
    /\ UNCHANGED <<pv_path, anVars, laterVars, selVars, dhVars, cvVars>>

\* lines 140-169: resize_video, or the move of the cut to the final path
PvResize ==
    /\ pv_pc = "resize"
    /\ \E orientation \in {"original", "landscape", "portrait"}, resize_ok \in BOOLEAN :
           LET resize_success == orientation = "original" \/ resize_ok
           IN  /\ pv_failed' = IF resize_success THEN pv_failed ELSE "resize"
               /\ IF ResizeFailed(resize_success)
                  THEN /\ pv_pc' = "done"
                       /\ pv_result' = FailureResult("video resize failed", pv_path)
                  ELSE /\ pv_pc' = "subtitles"
                       /\ UNCHANGED pv_result
    /\ UNCHANGED <<pv_path, anVars, laterVars, selVars, dhVars, cvVars>>

\* lines 171-193: the subtitles, if enabled, and the result
PvFinish ==
    /\ pv_pc = "subtitles"
    /\ \E subtitle_path \in {"None", "input_edited.srt"} :
           pv_result' = SuccessResult(pv_path, "input_edited.mp4", subtitle_path, dh_result)
    /\ pv_pc' = "done"
    /\ UNCHANGED <<pv_path, pv_failed, anVars, laterVars, selVars, dhVars, cvVars>>

\* lines 195-201: an exception raised by validate_file, by the making of
\* the output directory and paths, by the move of line 158 or by the unlink
\* of line 162
PvException ==
    /\ \/ pv_pc \in {"validate", "resize"}
       \/ pv_pc = "detect" /\ dh_pc = "done" /\ dh_result.success
    /\ pv_pc' = "done"
    /\ pv_failed' = "exception"
    /\ pv_result' = FailureResult("exception", pv_path)
    /\ UNCHANGED <<pv_path, anVars, laterVars, selVars, dhVars, cvVars>>

\* line 76: the ffprobe of get_video_info never exits
PvProbeBlocks ==
    /\ pv_pc = "probe"
    /\ MayBlockForever("probe")
    /\ pv_pc' = "blocked_probe"
    /\ UNCHANGED <<pv_path, pv_failed, pv_result, anVars, laterVars, selVars, dhVars, cvVars>>

\* lines 148 and 152: the ffmpeg of resize_video never exits
PvResizeBlocks ==
    /\ pv_pc = "resize"
    /\ MayBlockForever("resize")
    /\ pv_pc' = "blocked_resize"
    /\ UNCHANGED <<pv_path, pv_failed, pv_result, anVars, laterVars, selVars, dhVars, cvVars>>

WorkflowNext ==
    \/ PvValidate
    \/ PvProbe
    \/ DetectProbe
    \/ DetectAnalyze
    \/ DetectSelect
    \/ PvAfterDetect
    \/ CutBegin
    \/ CutSegment
    \/ CutFinish
    \/ PvAfterCut
    \/ PvResize
    \/ PvFinish
    \/ PvException
    \/ PvProbeBlocks
    \/ CutConcatBlocks
    \/ PvResizeBlocks

SpecWorkflow == WorkflowInit /\ [][WorkflowNext]_vars

-----------------------------------------------------------------------------
(* Claims on cut_video (SpecCut)                                           *)

IndexAscending(files) ==
    \A j \in 1..Len(files), k \in 1..Len(files) : j < k => files[j].index < files[k].index

FileStartAscending(files) ==
    \A j \in 1..Len(files), k \in 1..Len(files) : j < k => files[j].start < files[k].start

RangesTimeOrdered(segments) ==
    \A j \in 1..Len(segments), k \in 1..Len(segments) :
        j < k => segments[j][1] < segments[k][1]

\* C6: the list of segment files cut_video passes to _concat_videos is in
\* ascending original index, and in ascending start_time when the ranges
\* are, whichever segments fail and however long each cut takes.
C6_ConcatInputAscendingIndex ==
    /\ IndexAscending(segment_files)
    /\ concat_input \in {<<>>, segment_files}
    /\ IndexAscending(concat_input)
    /\ RangesTimeOrdered(cv_segments) => FileStartAscending(concat_input)

\* C6 witness: three time-ordered ranges, the middle cut failed, the first
\* cut slower than the last, and the two files passed to _concat_videos
C6_Witness ==
    /\ cv_pc = "returned"
    /\ Len(cv_segments) = 3
    /\ RangesTimeOrdered(cv_segments)
    /\ Len(concat_input) = 2
    /\ Indices(concat_input) = <<0, 2>>
    /\ concat_input[1].took > concat_input[2].took
    /\ Len(failed_segments) = 1

\* cut_video has returned from a list of at least two valid ranges of which
\* at least one was cut
SomeCutSucceeded ==
    /\ cv_pc = "returned"
    /\ Len(cv_segments) >= 2
    /\ \A k \in 1..Len(cv_segments) : ~InvalidRange(cv_segments[k])
    /\ segment_files # <<>>

\* every index is in exactly one entry of segment_files or failed_segments
EachIndexOnce ==
    /\ Len(segment_files) + Len(failed_segments) = Len(cv_segments)
    /\ \A i \in 0..(Len(cv_segments) - 1) :
           \/ \E k \in 1..Len(segment_files) : segment_files[k].index = i
           \/ \E k \in 1..Len(failed_segments) : failed_segments[k].index = i

-----------------------------------------------------------------------------
(* Claims on process_video (SpecWorkflow)                                  *)

\* process_video has returned after a cut_video in which every cut failed
AllCutsFailed ==
    /\ pv_pc = "done"
    /\ cv_pc = "returned"
    /\ Len(cv_segments) >= 1
    /\ Len(failed_segments) = Len(cv_segments)

C9_NoOutputPathOnFailure ==
    pv_pc = "done" =>
        /\ pv_failed # "none" =>
               pv_result.success = FALSE /\ "output_path" \notin DOMAIN pv_result
        /\ pv_result.success = FALSE => "output_path" \notin DOMAIN pv_result
        /\ "output_path" \in DOMAIN pv_result =>
               pv_result.success = TRUE /\ pv_failed = "none"

\* C9 witness: the cut left its output, the resize failed, and the result
\* returned carries no path
C9_Witness ==
    /\ pv_pc = "done"
    /\ pv_failed = "resize"
    /\ cv_ret = TRUE
    /\ cv_output # <<>>
    /\ pv_result.success = FALSE
    /\ "output_path" \notin DOMAIN pv_result

-----------------------------------------------------------------------------
(* Claim on the scratch directory of cut_video (SpecCut)                   *)

-----------------------------------------------------------------------------
(* Claims on the checks and the join of cut_video (SpecCut)                *)

\* C11: when 'ffmpeg -version' cannot be run, cut_video returns False with
\* no scratch directory created and no segment cut started.
C11_FailFastWithoutScratch ==
    cv_ffmpeg = "unavailable" =>
        /\ cv_pc = "returned"
        /\ cv_ret = FALSE
        /\ temp_dir = "None"
        /\ temp_files = {}
        /\ cv_i = 0
        /\ segment_files = <<>>
        /\ failed_segments = <<>>

\* C11 witness: cut_video returned from three valid ranges with ffmpeg
\* unavailable
C11_Witness ==
    /\ cv_ffmpeg = "unavailable"
    /\ cv_pc = "returned"
    /\ Len(cv_segments) = 3
    /\ \A k \in 1..Len(cv_segments) : ~InvalidRange(cv_segments[k])
    /\ cv_ret = FALSE

\* C12: whenever cut_video joins two or more files, _concat_videos runs the
\* re-encoding command, never the stream-copy command.
C12_ConcatReencodes ==
    Len(concat_input) >= 2 => concat_mode = "reencode"

-----------------------------------------------------------------------------
(* Specification SpecBatch: VideoProcessingWorkflow.process_batch          *)
(*                                                                         *)
(* Every path is submitted to the pool before the first result is taken    *)
(* (lines 285-288); a worker takes the queued tasks in the order of        *)
(* submission.  A task is a call of process_video, followed through the    *)
(* files it writes outside the scratch directory of its cut_video: the     *)
(* list file of _concat_videos and the audio file of _generate_subtitles.  *)
(* shutdown(wait=False) of line 297 cancels no queued task, and leaving    *)
(* the with block of line 283 waits for every task.                        *)

MaxVideos == 2
\* the longest list of paths

\* processing.max_workers
WorkerCounts == {1, 2}

\* video_processor.py:492: Path(output_path).parent / "concat_list.txt",
\* output_path being under output.folder for every video
ConcatListPath(t) == "output/concat_list.txt"

\* workflow.py:218: Path(output_video_path).parent / "temp_audio_subtitle.wav"
SubtitleAudioPath(t) == "output/temp_audio_subtitle.wav"

Tasks == 1..Len(video_paths)

Running == {t \in Tasks : pb_task[t] \notin {"queued", "done"}}

\* the access of task t to a path, if another task wrote the file there
Touch(t, path, op) ==
    IF pb_files[path] \notin {0, t} THEN {<<op, path>>} ELSE {}

\* the dict of lines 317-321
BatchFailure(video_path) == [success |-> FALSE, input_path |-> video_path]

\* the dict process_video returns, by its success and input_path
TaskResult(t) == [success |-> pb_outcome[t] = "success", input_path |-> video_paths[t]]

BatchInit ==
    /\ pb_pc = "collecting"
    /\ \E n \in 1..MaxVideos : video_paths = [i \in 1..n |-> i]
    /\ max_workers \in WorkerCounts
    /\ pb_task = [t \in Tasks |-> "queued"]
    /\ pb_outcome = [t \in Tasks |-> "none"]
    /\ should_stop = FALSE
    /\ results = <<>>
    /\ pb_handled = {}
    /\ pb_files = [path \in {ConcatListPath(0), SubtitleAudioPath(0)} |-> 0]
    /\ pb_shared = {}
    /\ pb_late = {}
    /\ AnIdle
    /\ SelIdle
    /\ DhIdle
    /\ CvIdle
    /\ PvIdle
    /\ AuxIdle

\* a free worker takes the first queued task
TaskStart ==
    \E t \in Tasks :
        /\ pb_task[t] = "queued"
        /\ \A u \in Tasks : u < t => pb_task[u] # "queued"
        /\ Cardinality(Running) < max_workers
        /\ pb_task' = [pb_task EXCEPT ![t] = "started"]
        /\ pb_late' = IF should_stop THEN pb_late \cup {t} ELSE pb_late
        /\ UNCHANGED <<pb_pc, video_paths, max_workers, pb_outcome, should_stop, results,
                       pb_handled, pb_files, pb_shared>>
        /\ UNCHANGED <<anVars, selVars, dhVars, cvVars, pvVars, auxVars>>

\* a step of task t on the file at path: it writes, reads or unlinks it
TaskFileStep(t, from, to, path, op) ==
    /\ pb_task[t] = from
    /\ pb_task' = [pb_task EXCEPT ![t] = to]
    /\ pb_shared' = pb_shared \cup Touch(t, path, op)
    /\ pb_files' = IF op = "write" THEN [pb_files EXCEPT ![path] = t]
                   ELSE IF op = "unlink" THEN [pb_files EXCEPT ![path] = 0]
                   ELSE pb_files
    /\ UNCHANGED <<pb_pc, video_paths, max_workers, pb_outcome, should_stop, results,
                   pb_handled, pb_late>>
    /\ UNCHANGED <<anVars, selVars, dhVars, cvVars, pvVars, auxVars>>

\* video_processor.py:494-500
TaskConcatWrite == \E t \in Tasks : TaskFileStep(t, "started", "listed", ConcatListPath(t), "write")

\* video_processor.py:535: ffmpeg reads the list
TaskConcatRun == \E t \in Tasks : TaskFileStep(t, "listed", "joined", ConcatListPath(t), "read")

\* video_processor.py:546-552
TaskConcatUnlink == \E t \in Tasks : TaskFileStep(t, "joined", "cut", ConcatListPath(t), "unlink")

\* video_processor.py:429-431: a single file is moved, no list is written
TaskNoConcat ==
    \E t \in Tasks :
        /\ pb_task[t] = "started"
        /\ pb_task' = [pb_task EXCEPT ![t] = "cut"]
        /\ UNCHANGED <<pb_pc, video_paths, max_workers, pb_outcome, should_stop, results,
                       pb_handled, pb_files, pb_shared, pb_late>>
        /\ UNCHANGED <<anVars, selVars, dhVars, cvVars, pvVars, auxVars>>

\* workflow.py:218-219: extract_audio runs ffmpeg -y on the path
TaskAudioWrite == \E t \in Tasks : TaskFileStep(t, "cut", "extracted", SubtitleAudioPath(t), "write")

\* workflow.py:229: the recognizer reads the audio
TaskAudioRead == \E t \in Tasks : TaskFileStep(t, "extracted", "recognized", SubtitleAudioPath(t), "read")

\* workflow.py:233 and 247-248
TaskAudioUnlink == \E t \in Tasks : TaskFileStep(t, "recognized", "subtitled", SubtitleAudioPath(t), "unlink")

\* process_video returns its dict, or raises
TaskFinish ==
    \E t \in Tasks :
        /\ pb_task[t] \in {"started", "cut", "subtitled"}
        /\ \E outcome \in {"success", "failure", "raised"} :
               /\ outcome = "success" => pb_task[t] # "started"
               /\ pb_outcome' = [pb_outcome EXCEPT ![t] = outcome]
        /\ pb_task' = [pb_task EXCEPT ![t] = "done"]
        /\ UNCHANGED <<pb_pc, video_paths, max_workers, should_stop, results,
                       pb_handled, pb_files, pb_shared, pb_late>>
        /\ UNCHANGED <<anVars, selVars, dhVars, cvVars, pvVars, auxVars>>

\* lines 294-321: as_completed yields the future of task t
BatchCollect ==
    \E t \in Tasks :
        /\ pb_pc = "collecting"
        /\ pb_task[t] = "done"
        /\ t \notin pb_handled
        /\ IF should_stop
           THEN /\ pb_pc' = "stopped"
                /\ UNCHANGED <<results, pb_handled>>
           ELSE /\ pb_handled' = pb_handled \cup {t}
                /\ \E callback_raises \in BOOLEAN :
                       results' =
                           IF pb_outcome[t] = "raised"
                           THEN Append(results, BatchFailure(video_paths[t]))
                           ELSE IF callback_raises
                                THEN Append(Append(results, TaskResult(t)),
                                            BatchFailure(video_paths[t]))
                                ELSE Append(results, TaskResult(t))
                /\ UNCHANGED pb_pc
        /\ UNCHANGED <<video_paths, max_workers, pb_task, pb_outcome, should_stop,
                       pb_files, pb_shared, pb_late>>
        /\ UNCHANGED <<anVars, selVars, dhVars, cvVars, pvVars, auxVars>>

\* lines 283 and 323-330: the with block is left once every task has ended
BatchReturn ==
    /\ \/ pb_pc = "collecting" /\ pb_handled = Tasks
       \/ pb_pc = "stopped"
    /\ \A t \in Tasks : pb_task[t] = "done"
    /\ pb_pc' = "returned"
    /\ UNCHANGED <<video_paths, max_workers, pb_task, pb_outcome, should_stop, results,
                   pb_handled, pb_files, pb_shared, pb_late>>
    /\ UNCHANGED <<anVars, selVars, dhVars, cvVars, pvVars, auxVars>>

\* lines 332-335, called from another thread during the batch
StopProcessing ==
    /\ pb_pc = "collecting"
    /\ should_stop' = TRUE
    /\ UNCHANGED <<pb_pc, video_paths, max_workers, pb_task, pb_outcome, results,
                   pb_handled, pb_files, pb_shared, pb_late>>
    /\ UNCHANGED <<anVars, selVars, dhVars, cvVars, pvVars, auxVars>>

BatchNext ==
    \/ TaskStart
    \/ TaskConcatWrite
    \/ TaskConcatRun
    \/ TaskConcatUnlink
    \/ TaskNoConcat
    \/ TaskAudioWrite
    \/ TaskAudioRead
    \/ TaskAudioUnlink
    \/ TaskFinish
    \/ BatchCollect
    \/ BatchReturn
    \/ StopProcessing

SpecBatch == BatchInit /\ [][BatchNext]_vars

-----------------------------------------------------------------------------
(* Claims on process_batch (SpecBatch)                                     *)

\* C13: no task of process_batch writes, reads or deletes a temporary file
\* that another task wrote.
C13_NoSharedIntermediateFile == pb_shared = {}

\* C14: once should_stop is set during a batch no queued video is started,
\* and the videos in flight run to their end.
C14_StopHaltsDispatch ==
    /\ pb_late = {}
    /\ pb_pc = "returned" => \A t \in Tasks : pb_task[t] \in {"queued", "done"}

\* C15: without cancellation process_batch returns exactly one result for
\* each input path, carrying that path, a failure for a video that failed or
\* raised and the result of every other video, with at most max_workers
\* videos in processing at any moment.
C15_OneResultPerInput ==
    /\ Cardinality(Running) <= max_workers
    /\ (pb_pc = "returned" /\ ~should_stop) =>
           /\ Len(results) = Len(video_paths)
           /\ \A t \in Tasks :
                  \E k \in 1..Len(results) :
                      /\ results[k].input_path = video_paths[t]
                      /\ results[k].success = (pb_outcome[t] = "success")

-----------------------------------------------------------------------------
(* Claim on the external processes of process_video (SpecWorkflow)         *)

\* a call of subprocess.run that will never return
Blocked ==
    \/ pv_pc \in {"blocked_probe", "blocked_resize"}
    \/ cv_pc = "blocked_concat"

\* C16: no call of an external process blocks process_video for ever, so
\* that it returns or can take a further step, and a cut that timed out is
\* an entry of failed_segments that leaves the loop running.
C16_NoCallBlocksForever ==
    /\ ~Blocked
    /\ pv_pc = "done" \/ ENABLED WorkflowNext
    /\ \A k \in 1..Len(failed_segments) :
           failed_segments[k].error = "Timeout" =>
               cv_i > failed_segments[k].index \/ cv_pc = "returned"

-----------------------------------------------------------------------------
(* AudioAnalyzer.detect_silence                                            *)
(*                                                                         *)
(* Times are in ms; the list is_silent (one entry per 100 ms window,       *)
(* rms < silence_thresh) is the input.                                     *)

\* the 100 ms window of line 111
WindowMs == 100

\* the multiples of 0.1 up to 1.0 whose quotient by 0.1 in binary floating
\* point is below the integer: 0.3 / 0.1 = 2.9999999999999996,
\* 0.6 / 0.1 = 5.999999999999999, 0.7 / 0.1 = 6.999999999999999
QuotientBelowInteger == {300, 600, 700}

\* line 122: min_windows = int(min_silence_len / 0.1)
MinWindows(min_silence_len) ==
    IF min_silence_len \in QuotientBelowInteger
    THEN min_silence_len \div WindowMs - 1
    ELSE min_silence_len \div WindowMs

\* lines 128-131 and 136-138: (start_sec, end_sec) of windows start..i-1
SilenceRange(start, i) == <<start * WindowMs, i * WindowMs>>

-----------------------------------------------------------------------------
(* Specification SpecSilence: detect_silence on any list of windows        *)

MaxWindows == 6
\* the longest list is_silent of SpecSilence

MinSilenceLens == {100, 200, 250, 300}

BoolLists(n) == UNION {[1..k -> BOOLEAN] : k \in 0..n}

SilenceInit ==
    /\ ds_pc = "loop"
    /\ ds_in \in [is_silent : BoolLists(MaxWindows), min_silence_len : MinSilenceLens]
    /\ ds_i = 0
    /\ ds_start = NoStart
    /\ silence_ranges = <<>>
    /\ AnIdle
    /\ SelIdle
    /\ DhIdle
    /\ CvIdle
    /\ PvIdle
    /\ PbIdle
    /\ MgIdle
    /\ CfIdle
    /\ AdIdle
    /\ AjIdle
    /\ OpIdle

\* one iteration of the loop of lines 124-132
SilenceWindow ==
    /\ ds_pc = "loop"
    /\ ds_i < Len(ds_in.is_silent)
    /\ LET silent == ds_in.is_silent[ds_i + 1]
       IN  IF silent /\ ds_start = NoStart
           THEN /\ ds_start' = ds_i
                /\ UNCHANGED silence_ranges
           ELSE IF ~silent /\ ds_start # NoStart
           THEN /\ silence_ranges' =
                       IF ds_i - ds_start >= MinWindows(ds_in.min_silence_len)
                       THEN Append(silence_ranges, SilenceRange(ds_start, ds_i))
                       ELSE silence_ranges
                /\ ds_start' = NoStart
           ELSE UNCHANGED <<ds_start, silence_ranges>>
    /\ ds_i' = ds_i + 1
    /\ UNCHANGED <<ds_pc, ds_in>>
    /\ UNCHANGED <<anVars, selVars, dhVars, cvVars, pvVars, pbVars, mgVars, cfVars, adVars, ajVars, opVars>>

\* lines 134-142: the run that reaches the end of the audio, and the return
SilenceReturn ==
    /\ ds_pc = "loop"
    /\ ds_i >= Len(ds_in.is_silent)
    /\ silence_ranges' =
           IF ds_start # NoStart
              /\ Len(ds_in.is_silent) - ds_start >= MinWindows(ds_in.min_silence_len)
           THEN Append(silence_ranges, SilenceRange(ds_start, Len(ds_in.is_silent)))
           ELSE silence_ranges
    /\ ds_pc' = "returned"
    /\ UNCHANGED <<ds_in, ds_i, ds_start>>
    /\ UNCHANGED <<anVars, selVars, dhVars, cvVars, pvVars, pbVars, mgVars, cfVars, adVars, ajVars, opVars>>

SilenceNext == SilenceWindow \/ SilenceReturn

SpecSilence == SilenceInit /\ [][SilenceNext]_vars

-----------------------------------------------------------------------------
(* Claim on detect_silence (SpecSilence)                                   *)

\* windows a+1..b (1-based) are a maximal run of silent windows
MaximalSilentRun(a, b) ==
    LET w == ds_in.is_silent
    IN  /\ a < b
        /\ \A k \in (a + 1)..b : w[k]
        /\ a = 0 \/ ~w[a]
        /\ b = Len(w) \/ ~w[b + 1]

\* the maximal runs that last at least min_silence_len, as ranges in ms
QualifyingRuns ==
    {<<a * WindowMs, b * WindowMs>> :
        <<a, b>> \in {r \in (0..Len(ds_in.is_silent)) \X (0..Len(ds_in.is_silent)) :
                         /\ MaximalSilentRun(r[1], r[2])
                         /\ (r[2] - r[1]) * WindowMs >= ds_in.min_silence_len}}

\* C17: detect_silence returns exactly the maximal runs of silent 100 ms
\* windows that last at least min_silence_len, the run that reaches the end
\* of the audio included, each once, in ascending order and disjoint.
C17_ExactlyQualifyingRuns ==
    ds_pc = "returned" =>
        /\ {silence_ranges[k] : k \in 1..Len(silence_ranges)} = QualifyingRuns
        /\ Len(silence_ranges) = Cardinality(QualifyingRuns)
        /\ \A j \in 1..Len(silence_ranges), k \in 1..Len(silence_ranges) :
               j < k => silence_ranges[j][2] <= silence_ranges[k][1]

-----------------------------------------------------------------------------
(* Claim on the flags of detect_highlights (SpecDetect)                    *)

\* duration of the first n entries of a list of segments
RECURSIVE DurationUpTo(_, _)
DurationUpTo(h, n) == IF n = 0 THEN 0 ELSE DurationUpTo(h, n - 1) + h[n].duration

\* C18: when the adaptive selection over the analyzed segments is not empty
\* detect_highlights reports success, whether or not the total is inside the
\* adjusted window; total_duration is the sum of the durations of the selected
\* segments and in_target_range is true exactly when
\* adjusted_min <= total_duration <= adjusted_max.
C18_SuccessIndependentOfRange ==
    (dh_pc = "done" /\ dh_segments # <<>>) =>
        LET adjusted == _adjust_target_duration(dh_in.duration, dh_in.size,
                                                TargetDurationMin * Tick,
                                                TargetDurationMax * Tick)
            picked == _select_highlights_adaptive(dh_segments,
                                                  (adjusted[1] + adjusted[2]) \div 2,
                                                  adjusted[1], dh_in.size)
        IN  picked # <<>> =>
                /\ dh_result.success
                /\ dh_result.highlights = picked
                /\ dh_result.total_duration = DurationUpTo(picked, Len(picked))
                /\ dh_result.in_target_range
                       <=> (/\ adjusted[1] <= dh_result.total_duration
                            /\ dh_result.total_duration <= adjusted[2])

\* C18 witness: a successful result of several segments whose total is outside
\* the adjusted window
C18_Witness ==
    /\ dh_pc = "done"
    /\ dh_segments # <<>>
    /\ dh_result.success
    /\ Len(dh_result.highlights) >= 2
    /\ ~dh_result.in_target_range
    /\ \/ dh_result.total_duration < dh_result.target_min
       \/ dh_result.total_duration > dh_result.target_max

-----------------------------------------------------------------------------
(* Specification SpecMerge: _merge_adjacent_segments on a list of          *)
(* pairwise disjoint segments                                              *)

MaxMerge == 3
\* the longest list of SpecMerge

\* gaps before a segment: contiguous windows, 1 s, 3 s
MergeGaps == {0, Tick, 3 * Tick}

\* score numerators; multiples of 2^MaxMerge keep Avg2 exact over a merge
MergeScores == {2 ^ MaxMerge, 2 * (2 ^ MaxMerge)}

MergeTargets == {7 * Tick, 10 * Tick, 20 * Tick}

\* the list object passed as segments once the call has returned: line 268
\* sorts it in place, and line 275 copies segments[i] before lines 288-290
\* assign to the copy, so that its dicts keep their values
ListAfterCall(segments) ==
    IF Len(segments) <= 1 THEN segments ELSE SortByStart(segments)

MergeInit ==
    /\ mg_pc = "ready"
    /\ \E n \in 1..MaxMerge :
           \E f \in [1..n -> SegDurations \X MergeGaps \X MergeScores],
              p \in ListOrders(n),
              T \in MergeTargets :
               mg_in = [segments |-> CandidateList(f, p), target_duration |-> T]
    /\ mg_segments = mg_in.segments
    /\ mg_out = <<>>
    /\ AnIdle
    /\ SelIdle
    /\ DhIdle
    /\ CvIdle
    /\ PvIdle
    /\ PbIdle
    /\ DsIdle
    /\ CfIdle
    /\ AdIdle
    /\ AjIdle
    /\ OpIdle

MergeAdjacent ==
    /\ mg_pc = "ready"
    /\ mg_out' = _merge_adjacent_segments(mg_in.segments, mg_in.target_duration)
    /\ mg_segments' = ListAfterCall(mg_in.segments)
    /\ mg_pc' = "returned"
    /\ UNCHANGED mg_in
    /\ UNCHANGED <<anVars, selVars, dhVars, cvVars, pvVars, pbVars, dsVars, cfVars, adVars, ajVars, opVars>>

MergeNext == MergeAdjacent

SpecMerge == MergeInit /\ [][MergeNext]_vars

-----------------------------------------------------------------------------
(* Claim on _merge_adjacent_segments (SpecMerge)                           *)

\* the sum of f over the indices of S
RECURSIVE SumOver(_, _)
SumOver(f, S) ==
    IF S = {} THEN 0
    ELSE LET k == CHOOSE x \in S : TRUE
         IN  f[k] + SumOver(f, S \ {k})

\* the positions of mg_in.segments that segment x of the result spans
MergedRun(x) ==
    {k \in 1..Len(mg_in.segments) :
        /\ mg_in.segments[k].start_time >= x.start_time
        /\ mg_in.segments[k].end_time <= x.end_time}

\* C19: a segment of the result that spans k >= 2 segments of the input has
\* the sum of their durations as duration and the average of their k scores
\* as score, and the segments passed in keep their fields.
C19_MergedSumsAndAverages ==
    mg_pc = "returned" =>
        /\ Len(mg_segments) = Len(mg_in.segments)
        /\ {mg_segments[k] : k \in 1..Len(mg_segments)}
               = {mg_in.segments[k] : k \in 1..Len(mg_in.segments)}
        /\ \A j \in 1..Len(mg_out) :
               LET run == MergedRun(mg_out[j])
               IN  Cardinality(run) >= 2 =>
                       /\ mg_out[j].duration
                              = SumOver([k \in run |-> mg_in.segments[k].duration], run)
                       /\ Cardinality(run) * mg_out[j].score
                              = SumOver([k \in run |-> mg_in.segments[k].score], run)

-----------------------------------------------------------------------------
(* Claim on the failures of the analyzers (SpecAnalyze)                    *)

\* C20: a failure inside calculate_audio_score or calculate_video_score
\* never leaves analyze_video: the analyzer that failed counts as 0.0, and
\* the list returned holds one scored segment for every window.
C20_ScoringNeverAborts ==
    /\ an_pc # "raised"
    /\ an_pc = "done" =>
           LET D == an_in.duration
               W == an_in.segment_duration
               n == (D + W - 1) \div W
           IN  /\ Len(an_out) = n
               /\ \A i \in 0..(n - 1) :
                      \E j \in 1..n :
                          /\ an_out[j].index = i
                          /\ an_out[j].score =
                                 calculate_segment_score(
                                     IF an_outcome.audio[i] = Failed THEN 0
                                     ELSE an_outcome.audio[i],
                                     IF an_outcome.video[i] = Failed THEN 0
                                     ELSE an_outcome.video[i],
                                     i * W, Min2((i + 1) * W, D), D, an_in.w)

\* C20 witness: analyze_video has returned over several windows, the audio
\* failed on one, the video on one, and one window had no failure
C20_Witness ==
    /\ an_pc = "done"
    /\ Len(an_out) >= 3
    /\ \E i \in DOMAIN an_outcome.audio : an_outcome.audio[i] = Failed
    /\ \E i \in DOMAIN an_outcome.video : an_outcome.video[i] = Failed
    /\ \E i \in DOMAIN an_outcome.audio :
           an_outcome.audio[i] # Failed /\ an_outcome.video[i] # Failed

-----------------------------------------------------------------------------
(* utils.config.Config                                                     *)
(*                                                                         *)
(* A configuration is a dict of sections, each a dict of values.  The      *)
(* dicts of the sections are objects of cf_heap, so that two dicts of      *)
(* sections can hold the same section object as dict.copy() makes them.    *)
(* key_path.split('.') is a tuple of two keys.                             *)

\* m[k] = v
Put(m, k, v) == [x \in DOMAIN m \cup {k} |-> IF x = k THEN v ELSE m[x]]

\* the nested dicts a dict of sections stands for
Deref(top, heap) == [sec \in DOMAIN top |-> heap[top[sec]]]

\* lines 138-147 on a dict of sections held by reference
ConfigLookup(top, heap, path, default) ==
    IF path[1] \in DOMAIN top /\ path[2] \in DOMAIN heap[top[path[1]]]
    THEN heap[top[path[1]]][path[2]]
    ELSE default

\* the same lookup in a tree of values
TreeLookup(tree, path, default) ==
    IF path[1] \in DOMAIN tree /\ path[2] \in DOMAIN tree[path[1]]
    THEN tree[path[1]][path[2]]
    ELSE default

\* the order in which the sections of a file are built
SectionOrder == <<"app", "processing", "new">>

\* yaml.safe_load: a new dict for each section of the file
RECURSIVE LoadTree(_, _, _, _)
LoadTree(tree, n, top, heap) ==
    IF n > Len(SectionOrder) THEN [top |-> top, heap |-> heap]
    ELSE IF SectionOrder[n] \in DOMAIN tree
    THEN LoadTree(tree, n + 1, Put(top, SectionOrder[n], Len(heap) + 1),
                  Append(heap, tree[SectionOrder[n]]))
    ELSE LoadTree(tree, n + 1, top, heap)

\* line 95: __init__ leaves self.config empty
ConfigAfterInit(file) == [top |-> EmptyMap, heap |-> cf_heap]

\* lines 109, 112, 169: DEFAULT_CONFIG.copy(), a new dict of the same sections
CopyOfDefault == DEFAULT_CONFIG

\* lines 115-125: the file after save(); ok is whether the write went through
FileAfterSave(top, heap, ok) ==
    IF ok THEN [exists |-> TRUE, valid |-> TRUE, tree |-> Deref(top, heap)]
    ELSE cf_file

-----------------------------------------------------------------------------
(* Specification SpecConfig: two Config objects on one file                *)

MaxOps == 4
\* the calls made on the Config objects of SpecConfig

MaxObjects == 7
\* the section dicts of SpecConfig

Insts == {1, 2}

\* the file written by setUp of tests/test_config.py
TestFileTree == [app |-> [name |-> "TestApp"], processing |-> [max_workers |-> "4"]]

ConfigFiles ==
    {NoFile,
     [exists |-> TRUE, valid |-> TRUE, tree |-> TestFileTree],
     [exists |-> TRUE, valid |-> FALSE, tree |-> EmptyMap]}

GetPaths == {<<"app", "name">>, <<"processing", "max_workers">>, <<"nonexistent", "key">>}

GetDefaults == {"None", "default_value"}

SetPaths == {<<"app", "name">>, <<"processing", "max_workers">>, <<"new", "key">>}

SetValues == {"8"}

NoInstance ==
    [state |-> "none", had_file |-> FALSE, config |-> EmptyMap, calls |-> 0,
     fellback |-> FALSE]

ConfigInit ==
    /\ cf_file \in ConfigFiles
    /\ cf_heap = DefaultSections
    /\ cf_inst = [i \in Insts |-> NoInstance]
    /\ cf_last = NoCall
    /\ cf_ops = 0
    /\ AnIdle
    /\ SelIdle
    /\ DhIdle
    /\ CvIdle
    /\ PvIdle
    /\ PbIdle
    /\ DsIdle
    /\ MgIdle
    /\ AdIdle
    /\ AjIdle
    /\ OpIdle

CfOthers == <<anVars, selVars, dhVars, cvVars, pvVars, pbVars, dsVars, mgVars, adVars, ajVars, opVars>>

Called(i, op, path, default, result) ==
    [op |-> op, inst |-> i, path |-> path, default |-> default, result |-> result,
     calls_before |-> cf_inst[i].calls, file |-> cf_file]

\* Config(config_file), lines 87-95
ConfigConstruct ==
    \E i \in Insts :
        /\ cf_inst[i].state = "none"
        /\ cf_inst' = [cf_inst EXCEPT ![i] =
                          [state |-> "constructed",
                           had_file |-> cf_file.exists /\ cf_file.valid,
                           config |-> ConfigAfterInit(cf_file).top,
                           calls |-> 0,
                           fellback |-> FALSE]]
        /\ cf_heap' = ConfigAfterInit(cf_file).heap
        /\ cf_last' = Called(i, "construct", <<>>, "None", "None")
        /\ UNCHANGED <<cf_file, cf_ops>>
        /\ UNCHANGED CfOthers

\* load(), lines 97-113
ConfigLoad ==
    \E i \in Insts, ok \in BOOLEAN :
        /\ cf_inst[i].state # "none"
        /\ cf_ops < MaxOps
        /\ Len(cf_heap) + 2 <= MaxObjects
        /\ IF cf_file.exists /\ cf_file.valid
           THEN LET r == LoadTree(cf_file.tree, 1, EmptyMap, cf_heap)
                IN  /\ cf_inst' = [cf_inst EXCEPT ![i].state = "loaded",
                                                  ![i].config = r.top,
                                                  ![i].calls = @ + 1]
                    /\ cf_heap' = r.heap
                    /\ UNCHANGED cf_file
           ELSE /\ cf_inst' = [cf_inst EXCEPT ![i].state = "loaded",
                                              ![i].config = CopyOfDefault,
                                              ![i].calls = @ + 1,
                                              ![i].fellback = TRUE]
                /\ UNCHANGED cf_heap
                /\ cf_file' = IF cf_file.exists THEN cf_file
                              ELSE FileAfterSave(CopyOfDefault, cf_heap, ok)
        /\ cf_last' = Called(i, "load", <<>>, "None", "None")
        /\ cf_ops' = cf_ops + 1
        /\ UNCHANGED CfOthers

\* get(key_path, default), lines 127-147
ConfigGet ==
    \E i \in Insts, path \in GetPaths, default \in GetDefaults :
        /\ cf_inst[i].state # "none"
        /\ cf_ops < MaxOps
        /\ cf_last' = Called(i, "get", path, default,
                             ConfigLookup(cf_inst[i].config, cf_heap, path, default))
        /\ cf_inst' = [cf_inst EXCEPT ![i].calls = @ + 1]
        /\ cf_ops' = cf_ops + 1
        /\ UNCHANGED <<cf_file, cf_heap>>
        /\ UNCHANGED CfOthers

\* set(key_path, value), lines 149-165
ConfigSet ==
    \E i \in Insts, path \in SetPaths, value \in SetValues :
        /\ cf_inst[i].state # "none"
        /\ cf_ops < MaxOps
        /\ Len(cf_heap) + 1 <= MaxObjects
        /\ LET top == cf_inst[i].config
           IN  IF path[1] \in DOMAIN top
               THEN /\ cf_heap' = [cf_heap EXCEPT ![top[path[1]]] = Put(@, path[2], value)]
                    /\ cf_inst' = [cf_inst EXCEPT ![i].calls = @ + 1]
               ELSE /\ cf_heap' = Append(cf_heap, Put(EmptyMap, path[2], value))
                    /\ cf_inst' = [cf_inst EXCEPT ![i].calls = @ + 1,
                                                  ![i].config =
                                                      Put(top, path[1], Len(cf_heap) + 1)]
        /\ cf_last' = Called(i, "set", path, "None", value)
        /\ cf_ops' = cf_ops + 1
        /\ UNCHANGED cf_file
        /\ UNCHANGED CfOthers

\* save(), lines 115-125
ConfigSave ==
    \E i \in Insts, ok \in BOOLEAN :
        /\ cf_inst[i].state # "none"
        /\ cf_ops < MaxOps
        /\ cf_file' = FileAfterSave(cf_inst[i].config, cf_heap, ok)
        /\ cf_inst' = [cf_inst EXCEPT ![i].calls = @ + 1]
        /\ cf_last' = Called(i, "save", <<>>, "None", "None")
        /\ cf_ops' = cf_ops + 1
        /\ UNCHANGED cf_heap
        /\ UNCHANGED CfOthers

\* reset_to_default(), lines 167-170
ConfigReset ==
    \E i \in Insts, ok \in BOOLEAN :
        /\ cf_inst[i].state # "none"
        /\ cf_ops < MaxOps
        /\ cf_inst' = [cf_inst EXCEPT ![i].config = CopyOfDefault, ![i].calls = @ + 1]
        /\ cf_file' = FileAfterSave(CopyOfDefault, cf_heap, ok)
        /\ cf_last' = Called(i, "reset", <<>>, "None", "None")
        /\ cf_ops' = cf_ops + 1
        /\ UNCHANGED cf_heap
        /\ UNCHANGED CfOthers

ConfigNext ==
    \/ ConfigConstruct
    \/ ConfigLoad
    \/ ConfigGet
    \/ ConfigSet
    \/ ConfigSave
    \/ ConfigReset

SpecConfig == ConfigInit /\ [][ConfigNext]_vars

-----------------------------------------------------------------------------
(* Claims on Config (SpecConfig)                                           *)

\* C21: get on a Config constructed with the path of an existing YAML file,
\* with no other call made on the object, returns the value the file holds
\* at the path, and the default (None when none is given) for a path the
\* file does not hold.
C21_GetReturnsFileValues ==
    (/\ cf_last.op = "get"
     /\ cf_last.calls_before = 0
     /\ cf_inst[cf_last.inst].had_file
     /\ cf_last.file.exists /\ cf_last.file.valid)
    => cf_last.result = TreeLookup(cf_last.file.tree, cf_last.path, cf_last.default)

\* the defaults as shipped
ShippedDefaults == Deref(DEFAULT_CONFIG, DefaultSections)

DefaultPaths == {<<"app", "name">>, <<"processing", "max_workers">>}

\* C30: right after reset_to_default() on a Config that fell back to the
\* default configuration, get returns the shipped default for every default
\* key, whatever calls of set came before; and the class-level
\* DEFAULT_CONFIG keeps the shipped values whatever is set on an instance.
C30_ResetRestoresDefaults ==
    /\ Deref(DEFAULT_CONFIG, cf_heap) = ShippedDefaults
    /\ (cf_last.op = "reset" /\ cf_inst[cf_last.inst].fellback) =>
           \A path \in DefaultPaths :
               ConfigLookup(cf_inst[cf_last.inst].config, cf_heap, path, "None")
                   = TreeLookup(ShippedDefaults, path, "None")

-----------------------------------------------------------------------------
(* Specification SpecAdaptive: _select_highlights_adaptive, strategy by    *)
(* strategy, on the windows of a short video                               *)

MaxAdaptive == 5
\* the most windows of SpecAdaptive

AdaptiveSeconds == {4, 5, 6, 13, 25, 40}

\* processing.segment_duration, seconds
AdaptiveSegmentSeconds == {1, 3, 10}

\* score numerators; multiples of 2^MaxAdaptive keep Avg2 exact over a merge
AdaptiveScores == {k * (2 ^ MaxAdaptive) : k \in 1..3}

\* the segments of analyze_video (lines 83-110) with sc[i] as score of window i
ScoredWindows(total_duration, segment_duration, sc) ==
    SortByScoreDesc(
        [k \in 1..NumSegments(total_duration, segment_duration) |->
            [index |-> k - 1,
             start_time |-> (k - 1) * segment_duration,
             end_time |-> WindowEnd(k - 1, total_duration, segment_duration),
             duration |-> WindowEnd(k - 1, total_duration, segment_duration)
                              - (k - 1) * segment_duration,
             score |-> sc[k - 1]]])

\* processing.target_duration_min and _max, seconds: the defaults, and a
\* window of a few seconds
AdaptiveNominals == {<<TargetDurationMin, TargetDurationMax>>, <<3, 5>>}

\* the arguments detect_highlights passes at lines 364-365
AdaptiveArguments(total_duration, segment_duration, size, sc, nominal) ==
    LET adjusted == _adjust_target_duration(total_duration, size,
                                            nominal[1] * Tick, nominal[2] * Tick)
    IN  [segments |-> ScoredWindows(total_duration, segment_duration, sc),
         target_duration |-> (adjusted[1] + adjusted[2]) \div 2,
         min_duration |-> adjusted[1],
         size |-> size]

AdaptiveInit ==
    /\ ad_pc = "normal"
    /\ \E D \in AdaptiveSeconds, W \in AdaptiveSegmentSeconds, size \in DetectSizes :
           /\ CeilDiv(D, W) <= MaxAdaptive
           /\ \E sc \in [0..(CeilDiv(D, W) - 1) -> AdaptiveScores],
                 nominal \in AdaptiveNominals :
                  ad_in = AdaptiveArguments(D * Tick, W * Tick, size, sc, nominal)
    /\ ad_run = <<>>
    /\ ad_out = <<>>
    /\ AnIdle
    /\ SelIdle
    /\ DhIdle
    /\ CvIdle
    /\ PvIdle
    /\ PbIdle
    /\ DsIdle
    /\ MgIdle
    /\ CfIdle
    /\ AjIdle
    /\ OpIdle

AdOthers ==
    <<anVars, selVars, dhVars, cvVars, pvVars, pbVars, dsVars, mgVars, cfVars, ajVars, opVars>>

\* lines 455-463: the normal selection and its test
AdaptiveNormal ==
    /\ ad_pc = "normal"
    /\ LET min_segment_duration == IF SmallFile(ad_in.size) THEN 3 * Tick ELSE 5 * Tick
           highlights == select_highlights(ad_in.segments, ad_in.target_duration,
                                           min_segment_duration)
       IN  /\ ad_run' = Append(ad_run, [tier |-> 1, highlights |-> highlights])
           /\ IF Insufficient(highlights, ad_in.min_duration, 7)
              THEN ad_pc' = "relaxed" /\ UNCHANGED ad_out
              ELSE ad_pc' = "returned" /\ ad_out' = highlights
    /\ UNCHANGED ad_in
    /\ UNCHANGED AdOthers

\* lines 468-470: the selection with segments of 2 s and more, and its test
AdaptiveRelaxed ==
    /\ ad_pc = "relaxed"
    /\ LET highlights == select_highlights(ad_in.segments, ad_in.target_duration, 2 * Tick)
       IN  /\ ad_run' = Append(ad_run, [tier |-> 2, highlights |-> highlights])
           /\ IF Insufficient(highlights, ad_in.min_duration, 5)
              THEN ad_pc' = "forced" /\ UNCHANGED ad_out
              ELSE ad_pc' = "returned" /\ ad_out' = highlights
    /\ UNCHANGED ad_in
    /\ UNCHANGED AdOthers

\* lines 471-486: the forced selection
AdaptiveForced ==
    /\ ad_pc = "forced"
    /\ LET highlights == ForcedSelection(ad_in.segments, ad_in.min_duration)
       IN  /\ ad_run' = Append(ad_run, [tier |-> 3, highlights |-> highlights])
           /\ ad_out' = highlights
    /\ ad_pc' = "returned"
    /\ UNCHANGED ad_in
    /\ UNCHANGED AdOthers

AdaptiveNext == AdaptiveNormal \/ AdaptiveRelaxed \/ AdaptiveForced

SpecAdaptive == AdaptiveInit /\ [][AdaptiveNext]_vars

-----------------------------------------------------------------------------
(* Claim on the strategies of _select_highlights_adaptive (SpecAdaptive)   *)

\* nothing selected, or a total below tenths/10 of the floor
BelowFloor(highlights, tenths) ==
    \/ Len(highlights) = 0
    \/ 10 * DurationUpTo(highlights, Len(highlights)) < tenths * ad_in.min_duration

\* C22: the strategies run in the order 1, 2, 3; the second runs only when
\* the first selected nothing or less than 70% of min_duration, the third
\* only when the second ran and selected nothing or less than 50% of it; and
\* the third returns the min(len(segments), max(3, floor(min_duration / 10)))
\* highest-scored segments in ascending start_time order.
C22_TiersEscalateInOrder ==
    /\ Len(ad_run) <= 3
    /\ \A k \in 1..Len(ad_run) : ad_run[k].tier = k
    /\ Len(ad_run) >= 2 => BelowFloor(ad_run[1].highlights, 7)
    /\ Len(ad_run) >= 3 => BelowFloor(ad_run[2].highlights, 5)
    /\ (ad_pc = "returned" /\ Len(ad_run) = 3) =>
           LET N == Min2(Len(ad_in.segments),
                         Max2(3, ad_in.min_duration \div (10 * Tick)))
               chosen == {ad_out[k] : k \in 1..Len(ad_out)}
               all == {ad_in.segments[k] : k \in 1..Len(ad_in.segments)}
           IN  /\ Len(ad_out) = N
               /\ Cardinality(chosen) = N
               /\ chosen \subseteq all
               /\ \A x \in chosen, y \in all \ chosen : x.score >= y.score
               /\ \A j \in 1..N, k \in 1..N :
                      j < k => ad_out[j].start_time < ad_out[k].start_time

\* C22 witness: the third strategy has run and kept the highest-scored part
\* of a longer list
C22_Witness ==
    /\ ad_pc = "returned"
    /\ Len(ad_run) = 3
    /\ Len(ad_out) < Len(ad_in.segments)
    /\ \E j \in 1..Len(ad_in.segments), k \in 1..Len(ad_in.segments) :
           ad_in.segments[j].score > ad_in.segments[k].score

-----------------------------------------------------------------------------
(* cut_video: short ranges and the two encoder commands of one iteration   *)

\* the entries the iterations of the loop have written so far, of either
\* list; an iteration writes its entry after the command of line 275 ran
CutEntries ==
    {segment_files[k] : k \in 1..Len(segment_files)}
        \cup {failed_segments[k] : k \in 1..Len(failed_segments)}

\* the range of the source list an entry was written for
RangeOf(entry) == cv_segments[entry.index + 1]

\* C23: a requested segment shorter than 0.1 s is rejected before dispatch:
\* no encoder command is ever run for it, so no iteration ever writes an
\* entry of segment_files or failed_segments for a range shorter than 0.1 s
C23_ShortSegmentNeverDispatched ==
    \A entry \in CutEntries :
        LET range == RangeOf(entry)
        IN  range[2] - range[1] >= Tick \div 10

\* the entry the latest iteration wrote
LatestEntry == CHOOSE entry \in CutEntries : entry.index = cv_i - 1

\* C28: per segment cut_video makes at most two encoder invocations; the
\* stream-copy command is run exactly when the re-encode command exited
\* with a non-zero status, never after it timed out; a segment rescued by
\* the stream-copy command fails only as a segment of the first command
\* does (file missing, file empty, rename failed), is otherwise appended
\* to segment_files, and every appended segment is in the joined output
C28_AtMostTwoEncoderCalls ==
    /\ cv_i = 0 => cv_commands = <<>>
    /\ cv_i > 0 =>
           /\ Len(cv_commands) \in {1, 2}
           /\ (Len(cv_commands) = 2) <=> (cv_commands[1] = "error")
           /\ cv_commands[1] = "timeout" => Len(cv_commands) = 1
           /\ cv_commands[Len(cv_commands)] = "ok" =>
                  \/ LatestEntry \in {segment_files[k] : k \in 1..Len(segment_files)}
                  \/ LatestEntry.error \in
                         {"File not created", "Empty file", "Rename failed"}
           /\ cv_commands[Len(cv_commands)] # "ok" =>
                  \E k \in 1..Len(failed_segments) :
                      /\ failed_segments[k] = LatestEntry
                      /\ LatestEntry.error \in {"Timeout", "stderr"}
    /\ (cv_pc = "returned" /\ cv_join = "ok") => cv_output = Indices(segment_files)

\* C28 witness: a call returned True after the first command of its last
\* segment failed and the stream-copy command cut it, and the joined output
\* holds that segment beside an earlier one
C28_Witness ==
    /\ cv_pc = "returned"
    /\ cv_ret
    /\ cv_commands = <<"error", "ok">>
    /\ Len(cv_output) >= 2
    /\ cv_output[Len(cv_output)] = cv_i - 1
    /\ failed_segments # <<>>

-----------------------------------------------------------------------------
(* Specification SpecSelectShort: select_highlights on candidates shorter  *)
(* than the 3.0 s of line 190, which line 192 then takes as they are       *)

ShortDurations == {Tick \div 2, 2 * Tick}

\* 2.0 s is the widest gap line 282 merges over
ShortGaps == {2 * Tick, 3 * Tick}

ShortTargets == {4 * Tick}

SelectShortInit ==
    /\ sel_pc = "ready"
    /\ \E n \in 1..MaxSegs :
           sel_in \in SelectArguments(n, ShortDurations, ShortGaps, ShortTargets)
    /\ sel_out = <<>>
    /\ sel_again = <<>>
    /\ AnIdle
    /\ DhIdle
    /\ CvIdle
    /\ PvIdle
    /\ LaterIdle

SpecSelectShort == SelectShortInit /\ [][SelectNext]_vars

-----------------------------------------------------------------------------
(* select_highlights: the total of the result and the second pass          *)

\* C24: the total duration of the list returned by select_highlights never
\* exceeds 1.2 x target_duration, whatever the candidate list and the path
\* through the first pass, the second pass and the merge
C24_TotalWithinMaxTarget ==
    sel_pc \in {"selected", "reselected"} =>
        10 * SumDuration(sel_out) <= 12 * sel_in.target_duration

\* lines 205-232 on the arguments of a call: the first loop ends below
\* min_target and the second loop appends a segment
SecondPassAdds(input) ==
    LET sorted_segments ==
            SortByScoreDesc(ValidSegments(input.segments, input.min_segment_duration))
        p1 == FirstPass(sorted_segments, 1, <<>>, 0, input.target_duration)
    IN  /\ ~ReachedMin(p1.current_duration, input.target_duration)
        /\ AfterPasses(sorted_segments, input.target_duration).selected # p1.selected

\* the first loop of the call in progress ends below min_target and leaves
\* candidates for the second loop
SecondPassRuns(input) ==
    LET sorted_segments ==
            SortByScoreDesc(ValidSegments(input.segments, input.min_segment_duration))
        p1 == FirstPass(sorted_segments, 1, <<>>, 0, input.target_duration)
    IN  /\ ~ReachedMin(p1.current_duration, input.target_duration)
        /\ Len(p1.selected) < Len(sorted_segments)

\* C26: the second pass of select_highlights can change the selection:
\* among the candidate lists a call may be given there is one for which the
\* first pass ends below 0.8 x target and the second pass then adds at
\* least one previously unselected candidate
C26_SecondPassCanAdd ==
    sel_pc = "ready" =>
        \E n \in 1..MaxSegs :
            \E input \in SelectArguments(n, SegDurations, SegGaps, SelTargets) :
                SecondPassAdds(input)

\* the second loop runs in some call and appends nothing in any
SecondPassNeverAdds ==
    sel_pc = "selected" => ~SecondPassAdds(sel_in)

-----------------------------------------------------------------------------
(* Specification SpecAdjust: _adjust_target_duration on any video and any  *)
(* nominal window                                                          *)

\* original_duration in seconds, on both sides of the 200 and 300 of lines
\* 423-426
AdjustSeconds == {0, 40, 70, 150, 200, 250, 299, 300, 400, 700}

\* sizes on both sides of the 100 MB of line 423
AdjustSizes == {5 * MegaByte, 100 * MegaByte, 500 * MegaByte}

\* target_min and target_max in seconds: the defaults of workflow.py:100-101
\* and other values of processing.target_duration_min / _max
AdjustWindows ==
    {<<TargetDurationMin, TargetDurationMax>>, <<0, 0>>, <<3, 5>>, <<30, 50>>,
     <<60, 600>>, <<300, 300>>}

AdjustInit ==
    /\ aj_pc = "ready"
    /\ \E D \in AdjustSeconds, size \in AdjustSizes, window \in AdjustWindows :
           aj_in = [original_duration |-> D * Tick,
                    size |-> size,
                    target_min |-> window[1] * Tick,
                    target_max |-> window[2] * Tick]
    /\ aj_out = <<>>
    /\ AnIdle
    /\ SelIdle
    /\ DhIdle
    /\ CvIdle
    /\ PvIdle
    /\ PbIdle
    /\ DsIdle
    /\ MgIdle
    /\ CfIdle
    /\ AdIdle
    /\ OpIdle

AjOthers ==
    <<anVars, selVars, dhVars, cvVars, pvVars, pbVars, dsVars, mgVars, cfVars, adVars, opVars>>

\* lines 408-439
AdjustTargetDuration ==
    /\ aj_pc = "ready"
    /\ aj_out' = _adjust_target_duration(aj_in.original_duration, aj_in.size,
                                          aj_in.target_min, aj_in.target_max)
    /\ aj_pc' = "returned"
    /\ UNCHANGED <<aj_in, AjOthers>>

AdjustNext == AdjustTargetDuration

SpecAdjust == AdjustInit /\ [][AdjustNext]_vars

\* C25: _adjust_target_duration never requests a reel longer than the
\* source supports: for every source duration, file size and nominal window
\* with 0 <= target_min <= target_max, the returned pair satisfies
\* 0 <= adjusted_min <= adjusted_max and adjusted_max <= source duration
C25_WindowWithinSource ==
    (aj_pc = "returned" /\ 0 <= aj_in.target_min /\ aj_in.target_min <= aj_in.target_max)
    => /\ 0 <= aj_out[1]
       /\ aj_out[1] <= aj_out[2]
       /\ aj_out[2] <= aj_in.original_duration

\* the part of C25 on the order of the pair alone
AdjustedPairOrdered ==
    (aj_pc = "returned" /\ 0 <= aj_in.target_min /\ aj_in.target_min <= aj_in.target_max)
    => (0 <= aj_out[1] /\ aj_out[1] <= aj_out[2])

\* the part of C25 on the source, for the videos line 423 sends into the
\* small-file branch
SmallBranchWithinSource ==
    (/\ aj_pc = "returned"
     /\ SmallFile(aj_in.size) \/ aj_in.original_duration < 300 * Tick)
    => aj_out[2] <= aj_in.original_duration

-----------------------------------------------------------------------------
(* detect_highlights: the selection is never empty (SpecDetect)            *)

\* the target_duration of line 364
SelectionTarget == (dh_target[1] + dh_target[2]) \div 2

\* C27: _select_highlights_adaptive returns at least one segment for every
\* non-empty candidate list, so once analyze_video has produced a segment
\* detect_highlights succeeds instead of reporting that no suitable
\* segment was found; the time ranges of the result are non-empty, each
\* with end > start, and each ends no later than the next one starts
C27_SelectionNeverEmpty ==
    (dh_pc = "done" /\ dh_segments # <<>>) =>
        /\ _select_highlights_adaptive(dh_segments, SelectionTarget, dh_target[1],
                                        dh_in.size) # <<>>
        /\ dh_result.success
        /\ dh_result.time_ranges # <<>>
        /\ \A k \in 1..Len(dh_result.time_ranges) :
               dh_result.time_ranges[k][2] > dh_result.time_ranges[k][1]
        /\ \A k \in 1..(Len(dh_result.time_ranges) - 1) :
               dh_result.time_ranges[k][2] <= dh_result.time_ranges[k + 1][1]

\* C27 witness: the normal and the relaxed selection both returned nothing,
\* and detect_highlights succeeded with the forced one
C27_Witness ==
    /\ dh_pc = "done"
    /\ dh_segments # <<>>
    /\ select_highlights(dh_segments, SelectionTarget,
                          IF SmallFile(dh_in.size) THEN 3 * Tick ELSE 5 * Tick) = <<>>
    /\ select_highlights(dh_segments, SelectionTarget, 2 * Tick) = <<>>
    /\ AdaptiveTier(dh_segments, SelectionTarget, dh_target[1], dh_in.size) = 3
    /\ dh_result.success
    /\ dh_result.time_ranges # <<>>

-----------------------------------------------------------------------------
(* Specification SpecPaths: the files of output.folder during a batch      *)
(*                                                                         *)
(* Each task of process_batch is a call of process_video in a thread of    *)
(* the pool.  A file of output.folder is named by the stem of the input,   *)
(* the suffix and the counter of create_output_path (0 for none); op_files *)
(* maps each file that exists to the task whose cut it holds.              *)

DefaultMaxWorkers == 4
\* workflow.py:280: processing.max_workers

InputFolders == {"a", "b"}

InputStems == {"clip", "talk"}

NoPath == <<>>

PathTasks == 1..Len(op_in)

\* file_manager.py:155-164: the first name of the stem and suffix that no
\* file of the folder has
create_output_path(stem, suffix, files) ==
    LET taken(c) == <<stem, suffix, c>> \in DOMAIN files
        counter == CHOOSE c \in 0..Cardinality(DOMAIN files) :
                       ~taken(c) /\ \A d \in 0..(c - 1) : taken(d)
    IN  <<stem, suffix, counter>>

\* a dict without the key k
Drop(map, k) == [x \in DOMAIN map \ {k} |-> map[x]]

\* the tasks a thread of the pool is running
PathRunning == {t \in PathTasks : op_pc[t] \in {"started", "named", "cut", "final"}}

PathsInit ==
    /\ \E n \in 1..MaxVideos :
           /\ op_in \in [1..n -> InputFolders \X InputStems]
           /\ \A t \in 1..n, u \in 1..n : t # u => op_in[t] # op_in[u]
    /\ op_orientation \in {"original", "landscape"}
    /\ op_pc = [t \in PathTasks |-> "queued"]
    /\ op_temp = [t \in PathTasks |-> NoPath]
    /\ op_final = [t \in PathTasks |-> NoPath]
    /\ op_files = EmptyMap
    /\ AnIdle
    /\ SelIdle
    /\ DhIdle
    /\ CvIdle
    /\ PvIdle
    /\ PbIdle
    /\ DsIdle
    /\ MgIdle
    /\ CfIdle
    /\ AdIdle
    /\ AjIdle

OpOthers ==
    <<anVars, selVars, dhVars, cvVars, pvVars, pbVars, dsVars, mgVars, cfVars, adVars, ajVars>>

\* workflow.py:283-288: a free thread of the pool takes the first queued task
PathStart ==
    \E t \in PathTasks :
        /\ op_pc[t] = "queued"
        /\ \A u \in PathTasks : u < t => op_pc[u] # "queued"
        /\ Cardinality(PathRunning) < DefaultMaxWorkers
        /\ op_pc' = [op_pc EXCEPT ![t] = "started"]
        /\ UNCHANGED <<op_in, op_orientation, op_temp, op_final, op_files, OpOthers>>

\* workflow.py:64-126: validation, probe and detection, then the name of
\* the temporary cut
PathTemp ==
    \E t \in PathTasks :
        /\ op_pc[t] = "started"
        /\ \E detected \in BOOLEAN :
               IF detected
               THEN /\ op_temp' = [op_temp EXCEPT
                                      ![t] = create_output_path(op_in[t][2], "_temp_cut",
                                                                op_files)]
                    /\ op_pc' = [op_pc EXCEPT ![t] = "named"]
               ELSE /\ op_pc' = [op_pc EXCEPT ![t] = "failed"]
                    /\ UNCHANGED op_temp
        /\ UNCHANGED <<op_in, op_orientation, op_final, op_files, OpOthers>>

\* workflow.py:126-137: cut_video moves or joins its segments to
\* temp_cut_path, replacing a file that is there
PathCut ==
    \E t \in PathTasks :
        /\ op_pc[t] = "named"
        /\ \E success \in BOOLEAN :
               IF success
               THEN /\ op_files' = Put(op_files, op_temp[t], t)
                    /\ op_pc' = [op_pc EXCEPT ![t] = "cut"]
               ELSE /\ op_pc' = [op_pc EXCEPT ![t] = "failed"]
                    /\ UNCHANGED op_files
        /\ UNCHANGED <<op_in, op_orientation, op_temp, op_final, OpOthers>>

\* workflow.py:140-143: the name of the final output
PathFinal ==
    \E t \in PathTasks :
        /\ op_pc[t] = "cut"
        /\ op_final' = [op_final EXCEPT
                           ![t] = create_output_path(op_in[t][2], "_edited", op_files)]
        /\ op_pc' = [op_pc EXCEPT ![t] = "final"]
        /\ UNCHANGED <<op_in, op_orientation, op_temp, op_files, OpOthers>>

\* workflow.py:145-168: resize_video reads the cut and writes the output,
\* then the cut is unlinked; or shutil.move renames the cut, and raises into
\* the except of line 194 when the cut is gone
PathPublish ==
    \E t \in PathTasks :
        /\ op_pc[t] = "final"
        /\ IF op_temp[t] \notin DOMAIN op_files
           THEN /\ op_pc' = [op_pc EXCEPT ![t] = "failed"]
                /\ UNCHANGED op_files
           ELSE IF op_orientation = "original"
                THEN /\ op_files' = Put(Drop(op_files, op_temp[t]), op_final[t],
                                        op_files[op_temp[t]])
                     /\ op_pc' = [op_pc EXCEPT ![t] = "done"]
                ELSE \E resize_success \in BOOLEAN :
                         /\ op_files' =
                                IF resize_success
                                THEN Put(Drop(op_files, op_temp[t]), op_final[t],
                                         op_files[op_temp[t]])
                                ELSE Drop(op_files, op_temp[t])
                         /\ op_pc' = [op_pc EXCEPT
                                         ![t] = IF resize_success THEN "done" ELSE "failed"]
        /\ UNCHANGED <<op_in, op_orientation, op_temp, op_final, OpOthers>>

PathsNext == PathStart \/ PathTemp \/ PathCut \/ PathFinal \/ PathPublish

SpecPaths == PathsInit /\ [][PathsNext]_vars

\* task t holds its temporary cut: named and not yet published or failed
HoldsTemp(t) == op_pc[t] \in {"named", "cut", "final"}

\* task t holds its final output: named, and published or about to be
HoldsFinal(t) == op_pc[t] \in {"final", "done"}

\* C29: within one process_batch two different input videos never hold the
\* same temporary-cut path or the same final output path, whatever their
\* names and the interleaving of their tasks, and the output a video
\* reports holds its own cut: no video's file is overwritten by or moved
\* over another's
C29_DistinctOutputPaths ==
    /\ \A t \in PathTasks, u \in PathTasks :
           (t # u /\ HoldsTemp(t) /\ HoldsTemp(u)) => op_temp[t] # op_temp[u]
    /\ \A t \in PathTasks, u \in PathTasks :
           (t # u /\ HoldsFinal(t) /\ HoldsFinal(u)) => op_final[t] # op_final[u]
    /\ \A t \in PathTasks :
           op_pc[t] = "done" =>
               (op_final[t] \in DOMAIN op_files /\ op_files[op_final[t]] = t)

\* the videos of the batch have pairwise different file names
DistinctStems ==
    \A t \in PathTasks, u \in PathTasks : t # u => op_in[t][2] # op_in[u][2]

\* the paths of C29 are distinct when no two inputs share a file name
DistinctWhenNamesDiffer == DistinctStems => C29_DistinctOutputPaths

====
